---- MODULE Spec2Model ----
\* A model of namecrane/hoist: the token manager of auth.go (Authenticate,
\* RefreshToken, GetToken) called by concurrent callers, and the chunked
\* upload of files.go (ChunkedUpload, uploadChunk, doRequest).
\*
\* Time is counted in minutes.  A credential is the AuthResponse struct; the
\* i-th credential the backend issues carries access token i and refresh
\* token i, and access token 0 stands for the empty string.  A nil
\* *AuthResponse is the record NilResponse (isNil = TRUE).
EXTENDS Integers, Sequences, FiniteSets, TLC

\* ------------------------------------------------------------------ bounds
MaxTime == 2
MaxIssued == 2
MaxChunks == 2
MaxLen == 5
MaxDepth == 2
\* the most folders of one name that the backend makes in one folder
MaxCopies == 2
\* the most bytes the scratch files hold together, and the most download
\* requests one handle sends
MaxData == 2
MaxDownloads == 1
\* the most scratch files that are made for one handle
MaxScratch == 2

\* ------------------------------------------------------- program constants
\* auth.go:210  time.Now().Add(5 * time.Minute)
Grace == 5
\* auth.go:19
defaultUsername == "default"
\* net/http StatusOK, compared at auth.go:112, auth.go:151, files.go:212
StatusOK == 200
\* files.go:22
maxChunkSize == 15 * 1024 * 1024

\* ----------------------------------------------------------------- inputs
Threads == {"t1", "t2"}
Usernames == {defaultUsername, "alice"}
\* the value stored in the context under "username": absent, a string, or a
\* value of another type (auth.go:175-188)
CtxNil == "<nil>"
CtxNotString == "<int>"
CtxValues == {CtxNil, "alice", CtxNotString}
\* without a store the manager keeps one credential and GetToken does not look
\* at the context: the callers then use the default user and no context value.
\* With a store each caller works for one user: the first for the default
\* user (no value in the context), the second for alice (her name in the
\* context, or a value that is not a string)
UsernamesOf(withStore, t) ==
  IF withStore /\ t = "t2" THEN {"alice"} ELSE {defaultUsername}
CtxValuesOf(withStore, t) ==
  IF withStore /\ t = "t2" THEN {"alice", CtxNotString} ELSE {CtxNil}
\* status codes the backend answers with
Statuses == {StatusOK, 401}
\* what the backend puts into a credential bundle, relative to the time of
\* the answer: access-token lifetime, refresh-token lifetime, and whether the
\* accessToken field is present
BackendBodies ==
  { [tokLife |-> 6, refLife |-> 8, hasToken |-> TRUE],
    [tokLife |-> 4, refLife |-> 8, hasToken |-> TRUE],
    [tokLife |-> 6, refLife |-> 1, hasToken |-> TRUE],
    [tokLife |-> 6, refLife |-> 8, hasToken |-> FALSE] }

NoBody == [tokLife |-> 0, refLife |-> 0, hasToken |-> FALSE]
\* what an authentication or refresh request can come back with: a transport
\* error, or a status with a body that decodes or does not (the JSON body
\* of an error answer decodes into an AuthResponse without any field set)
AuthAnswers ==
  { [transport |-> TRUE, status |-> 0, decodes |-> FALSE, body |-> NoBody] }
  \cup { [transport |-> FALSE, status |-> s, decodes |-> FALSE, body |-> NoBody] :
           s \in Statuses }
  \cup { [transport |-> FALSE, status |-> 401, decodes |-> TRUE, body |-> NoBody] }
  \cup { [transport |-> FALSE, status |-> StatusOK, decodes |-> TRUE, body |-> b] :
           b \in BackendBodies }

\* a *File: nil, or the File a body decodes into; a JSON body without the
\* fields of a File (an empty object, a success/message answer) decodes into
\* the zero value File{}
NilFile == 0
ZeroFile == -1
\* what a chunk request can come back with; file names the File record in
\* the body
UploadAnswers ==
  { [transport |-> TRUE, status |-> 0, decodes |-> FALSE, file |-> NilFile],
    [transport |-> FALSE, status |-> 500, decodes |-> FALSE, file |-> NilFile],
    [transport |-> FALSE, status |-> StatusOK, decodes |-> FALSE, file |-> NilFile],
    [transport |-> FALSE, status |-> StatusOK, decodes |-> TRUE, file |-> ZeroFile],
    [transport |-> FALSE, status |-> StatusOK, decodes |-> TRUE, file |-> 1] }
\* the sizes ChunkedUpload is called with: around no bytes, one chunk and
\* MaxChunks chunks, and the 20 MiB of the example
MiB == 1024 * 1024
FileSizes ==
  { n \in { k * maxChunkSize + d : k \in {0, 1, MaxChunks}, d \in {-1, 0, 1} } :
      n >= 0 /\ n <= MaxChunks * maxChunkSize }
  \cup {20 * MiB}
\* the bytes the input stream holds: all of fileSize, or one byte less
StreamLens(fileSize) ==
  {fileSize} \cup (IF fileSize > 0 THEN {fileSize - 1} ELSE {})
\* the files two callers upload at the same time: a file in the root, one
\* of another name in a folder, and a path without a leading slash; of one
\* chunk or of as many as there can be
UploadPaths == { <<"/", "a">>, <<"/", "a", "/", "b">>, <<"b">> }
UploadSizes == { 1, MaxChunks * maxChunkSize }
\* what a refresh request comes back with while an upload runs: a transport
\* error, or a credential with an access token outside the grace window
UploadAuthAnswers ==
  { a \in AuthAnswers :
      \/ a.transport
      \/ a.decodes /\ a.body = [tokLife |-> 6, refLife |-> 8, hasToken |-> TRUE] }

\* a header value: a scheme or unit with a number, or not set
Unset == <<"", 0>>
HeaderNames == {"Authorization", "Content-Type", "Range"}
\* the options a caller hands to DownloadFile: none, a range, or headers
\* that try to set the authorization themselves
CallerOpts ==
  { <<>>,
    << [key |-> "Range", value |-> <<"bytes", 0>>] >>,
    << [key |-> "Authorization", value |-> <<"Bearer", 99>>] >>,
    << [key |-> "Range", value |-> <<"bytes", 0>>],
       [key |-> "Authorization", value |-> <<"Basic", 1>>] >> }
\* what a download request can come back with
DownloadAnswers ==
  { [transport |-> TRUE, status |-> 0],
    [transport |-> FALSE, status |-> 404],
    [transport |-> FALSE, status |-> StatusOK] }

\* a string is the sequence of its characters; paths are written over a
\* slash and two letters
Slash == "/"
Chars == {Slash, "a", "b"}
RECURSIVE StringsOfLen(_)
StringsOfLen(n) ==
  IF n = 0 THEN {<<>>}
  ELSE { Append(s, c) : s \in StringsOfLen(n - 1), c \in Chars }
\* the paths ParsePath is called with: every string of up to MaxLen characters
Paths == UNION { StringsOfLen(n) : n \in 0..MaxLen }

\* the names of files and folders
Names == {<<"a">>, <<"b">>}
\* a File (files.go:679-686): its identifier and its name
FileOf(id, name) == [ID |-> id, Name |-> name]
\* the files of a folder at path: none, or one file named a
FileLists(path) == { <<>>, <<FileOf(path \o <<"#", "a">>, <<"a">>)>> }
\* the path of the child name of the folder at path
ChildPath(path, name) ==
  IF path = <<Slash>> THEN path \o name ELSE path \o <<Slash>> \o name
\* the folder trees of a given depth rooted at path: a folder holds folders
\* a and b in any combination; folders below b are left out
RECURSIVE TreesAt(_, _, _)
TreesAt(name, path, depth) ==
  LET pa == ChildPath(path, <<"a">>)
      pb == ChildPath(path, <<"b">>)
      as == IF depth = 0 THEN {} ELSE TreesAt(<<"a">>, pa, depth - 1)
      bs == IF depth = 0 THEN {} ELSE TreesAt(<<"b">>, pb, 0)
      subs == {<<>>} \cup { <<a>> : a \in as } \cup { <<b>> : b \in bs }
                \cup { <<a, b>> : a \in as, b \in bs }
  IN { [Name |-> name, Path |-> path, Subfolders |-> sf, Files |-> fl] :
         sf \in subs, fl \in FileLists(path) }
\* the paths Mkdir is called with
MkdirPaths ==
  { <<Slash>>, <<"a">>, <<Slash, "b">>, <<Slash, "a", Slash>>, <<Slash, "a", Slash, "b">> }
\* the paths two callers call Mkdir with at the same time
ConcurrentMkdirPaths == { <<Slash, "a">>, <<Slash, "a", Slash, "b">> }
\* the paths MkdirAll is called with: absolute ones, one with a slash at
\* the end, and two that do not start with a slash
MkdirAllPaths ==
  { <<Slash, "a">>, <<Slash, "a", Slash, "b">>, <<Slash, "b", Slash, "a">>,
    <<Slash, "a", Slash>>, <<"b">>, <<"a", Slash, "b">> }
\* the paths Remove and Stat are called with, and the pairs of paths Rename
\* is called with
EntryPaths ==
  { <<Slash>>, <<Slash, "a">>, <<"b">>, <<Slash, "a", Slash, "a">>,
    <<Slash, "a", Slash, "b">>, <<Slash, "b", Slash, "a">> }
\* the folders and the files MoveFiles is called with: a file of the root,
\* one of the folder a, and both, which have the same name
MoveFilesCalls ==
  { <<<<Slash, "b">>, << <<Slash, "#", "a">> >> >>,
    <<<<Slash>>, << <<Slash, "a", "#", "a">> >> >>,
    <<<<Slash, "b">>, << <<Slash, "#", "a">>, <<Slash, "a", "#", "a">> >> >> }
\* the folders and the new parent folders MoveFolder is called with: into
\* another folder, into the root, and into the folder itself
MoveFolderCalls ==
  { <<<<Slash, "a", Slash, "a">>, <<Slash, "b">>>>,
    <<<<Slash, "a", Slash, "b">>, <<Slash>>>>,
    <<<<Slash, "a">>, <<Slash, "a", Slash, "a">>>> }
RenamePairs ==
  { <<<<Slash, "a">>, <<Slash, "b">>>>,
    <<<<Slash, "a", Slash, "a">>, <<Slash, "a", Slash, "b">>>>,
    <<<<Slash, "a", Slash, "a">>, <<Slash, "b", Slash, "a">>>>,
    <<<<Slash, "a", Slash, "b">>, <<Slash, "b">>>>,
    <<<<Slash, "b", Slash, "a">>, <<Slash, "a", Slash, "b", Slash>>>> }
\* the trees the backend can hold when the callers start
RemoteTrees == TreesAt(<<>>, <<Slash>>, MaxDepth)
\* the paths Find is called with: up to three segments, with and without
\* the slashes at the ends, and one with an empty segment
FindPaths ==
  { <<>>, <<Slash>>, <<"a">>, <<Slash, "a">>, <<Slash, "b">>, <<Slash, "a", Slash>>,
    <<Slash, "a", Slash, "a">>, <<Slash, "a", Slash, "b">>, <<Slash, "b", Slash, "a">>,
    <<Slash, "a", Slash, "a", Slash, "b">>, <<Slash, "a", Slash, Slash, "a">> }
\* how a request of the path layer ends: GetToken fails and nothing is sent,
\* the transport fails, the status is not 200, the body does not decode,
\* the backend answers success false with a message of its own, or the
\* backend answers what it holds
FsAnswerKinds == {"token", "transport", "status", "undecodable", "refused", "ok"}

VARIABLES
  now,           \* time.Now()
  useStore,      \* am.store != nil (WithAuthStore was given)
  lastResponse,  \* am.lastResponse
  store,         \* the Store: username -> *AuthResponse
  mu,            \* am.mu: "free" or the thread holding it
  nextId,        \* backend: number of the next credential it issues
  pc,            \* position of each caller
  op,            \* the call each caller is in
  arg,           \* its argument: username (Authenticate), ctx value (others)
  response,      \* GetToken's local variable response
  req,           \* the request of the caller that is in flight
  ret,           \* what the call returned
  callSent,      \* refresh requests sent by the current call
  up,            \* the locals of a client operation and the requests it sent
  remote,        \* the folder tree the backend holds
  fs,            \* the call of the filesystem or path layer each caller is in
  handle,        \* each CraneFile: its fields and the call that is made on it
  tempFs,        \* FileSystem.tempFs: the scratch files, by name
  readCache,     \* FileSystem.readCache: nil, or its entries by file ID
  blobs          \* the contents of the files the backend holds, by file ID

authVars == <<now, useStore, lastResponse, store, mu, nextId>>
callVars == <<pc, op, arg, response, req, ret, callSent, up>>
fileVars == <<handle, tempFs, readCache, blobs>>
fsVars == <<remote, fs, fileVars>>

\* ------------------------------------------------------------------ values
\* type AuthResponse (auth.go:82-88)
NilResponse ==
  [isNil |-> TRUE, Username |-> "", Token |-> 0, TokenExpiration |-> 0,
   RefreshToken |-> 0, RefreshTokenExpiration |-> 0]

\* the body the backend decodes into an AuthResponse (auth.go:117-121,
\* auth.go:155-159)
DecodedResponse(id, user, body, t) ==
  [isNil |-> FALSE, Username |-> user,
   Token |-> IF body.hasToken THEN id ELSE 0,
   TokenExpiration |-> t + body.tokLife,
   RefreshToken |-> id,
   RefreshTokenExpiration |-> t + body.refLife]

NoReq == [kind |-> "none", token |-> 0, user |-> ""]
NoRet ==
  [tok |-> 0, left |-> 0, err |-> "none", file |-> NilFile, trigger |-> 0,
   grace |-> FALSE, answer |-> "none"]
\* the last answer to a chunk request, as the backend sent it
NoAnswer == [status |-> 0, file |-> NilFile]
\* the form fields that belong to a call of ChunkedUpload (files.go:178-188)
\* before the call has built them: the session identifier, the file name,
\* the folder and the size of a full chunk.  The fields that follow from
\* fileSize and from the chunk are the totalSize, totalChunks, chunk and
\* declared of a request
NoFields ==
  [resumableIdentifier |-> <<>>, resumableFilename |-> <<>>,
   contextData |-> <<>>, resumableChunkSize |-> 0]
NoUpload ==
  [fileSize |-> 0, totalChunks |-> 0, remaining |-> 0, chunk |-> 0,
   chunkSize |-> 0, inLeft |-> 0, inPos |-> 0, copied |-> 0, sent |-> <<>>,
   answered |-> 0, accepted |-> 0, tokenCalls |-> 0, last |-> NoAnswer,
   opts |-> <<>>, fields |-> NoFields]

\* type Folder (files.go:689-697) and type File (files.go:679-686), with the
\* fields the path layer reads; the root folder of an empty account
EmptyRoot == [Name |-> <<>>, Path |-> <<Slash>>, Subfolders |-> <<>>, Files |-> <<>>]
\* the zero value Folder{}, which a body without a folder decodes into
ZeroFolder == [Name |-> <<>>, Path |-> <<>>, Subfolders |-> <<>>, Files |-> <<>>]
\* the elements of a sequence
Elems(seq) == { seq[i] : i \in 1..Len(seq) }
\* the sequence p is the start of the sequence q
IsPrefix(p, q) == Len(p) <= Len(q) /\ SubSeq(q, 1, Len(p)) = p
\* a *Folder or *File: nil, or a pointer to the value v
NilPtr == [nil |-> TRUE]
Ptr(v) == [nil |-> FALSE, v |-> v]
\* no answer in flight
NoFsAnswer == [kind |-> "none", success |-> FALSE, message |-> "", folder |-> ZeroFolder]
\* a caller that is in no call of the filesystem or path layer: the call,
\* the argument and the two results of ParsePath, the answer in flight, the
\* requests the call sent, the result of GetFolders, the folder Find scans,
\* Find's results and the error the call returned; for Mkdir the name of
\* the new folder, and whether the backend held that folder when Mkdir was
\* called; for MkdirAll the segments recursiveMkdir still has to walk, and
\* the folders that were missing when MkdirAll was called; for Rename the
\* new name; for Stat the FileInfo it returned; for Remove, Rename and Stat
\* what the backend held at the path when the call was made
NoFsCall ==
  [pc |-> "idle", op |-> "none", path |-> <<>>, base |-> <<>>, name |-> <<>>,
   answer |-> NoFsAnswer, sent |-> <<>>, folders |-> NilPtr, snapshot |-> NilPtr,
   folder |-> NilPtr, file |-> NilPtr, err |-> "none",
   sub |-> <<>>, existed |-> FALSE, parts |-> <<>>, expected |-> <<>>,
   newName |-> <<>>, info |-> NilPtr, was |-> NilPtr]

\* a call returned (tok, err) at the current time; exp is the expiry that
\* came with tok in the AuthResponse it was taken from, left is how long the
\* token is still valid at the moment of the return, trigger is the
\* credential (by its refresh token) that GetToken had read, and grace tells
\* whether GetToken found it inside the grace window (auth.go:210); answer
\* is what the backend had answered to the call's last request
Returned(tok, exp, err, trigger, answer) ==
  [tok |-> tok, left |-> IF err = "nil" /\ tok # 0 THEN exp - now ELSE 0,
   err |-> err, file |-> NilFile, trigger |-> trigger, grace |-> FALSE,
   answer |-> answer]

\* the backend's answer, as the backend sees it
AnswerKind(ans) ==
  IF ans.transport THEN "transport"
  ELSE IF ans.status # StatusOK THEN "status"
  ELSE IF ~ans.decodes THEN "undecodable"
  ELSE "ok"

Begin(t, o, a) ==
  /\ pc[t] \in {"idle", "done"}
  /\ op' = [op EXCEPT ![t] = o]
  /\ arg' = [arg EXCEPT ![t] = a]
  /\ ret' = [ret EXCEPT ![t] = NoRet]
  /\ callSent' = [callSent EXCEPT ![t] = 0]
  /\ up' = [up EXCEPT ![t] = NoUpload]

\* Store.Get (auth.go:27): nil when nothing is stored for the user
StoreGet(username) == store[username]

\* Store.Set (auth.go:23)
StoreSet(username, auth) == [store EXCEPT ![username] = auth]

\* ------------------------------------------------------------------- Init
\* FileSystem after New (part_001:37-51) without WithReadCache: no handle is
\* open, the scratch filesystem is empty, there is no read cache
NoFiles ==
  /\ handle = <<>>
  /\ tempFs = <<>>
  /\ readCache = NilPtr
  /\ blobs = <<>>

Init ==
  /\ now = 0
  /\ useStore \in BOOLEAN
  /\ lastResponse = NilResponse
  /\ store = [u \in Usernames |-> NilResponse]
  /\ mu = "free"
  /\ nextId = 1
  /\ pc = [t \in Threads |-> "idle"]
  /\ op = [t \in Threads |-> "none"]
  /\ arg = [t \in Threads |-> ""]
  /\ response = [t \in Threads |-> NilResponse]
  /\ req = [t \in Threads |-> NoReq]
  /\ ret = [t \in Threads |-> NoRet]
  /\ callSent = [t \in Threads |-> 0]
  /\ up = [t \in Threads |-> NoUpload]
  /\ remote = EmptyRoot
  /\ fs = [t \in Threads |-> NoFsCall]
  /\ NoFiles

\* the clock advances
Tick ==
  /\ now < MaxTime
  /\ now' = now + 1
  /\ UNCHANGED <<useStore, lastResponse, store, mu, nextId>>
  /\ UNCHANGED callVars
  /\ UNCHANGED fsVars

\* ----------------------------------------------------------- Authenticate
\* auth.go:91-106: Authenticate takes the lock and posts the credentials
Authenticate(t, username) ==
  /\ Begin(t, "Authenticate", username)
  /\ mu = "free"
  /\ mu' = t
  /\ req' = [req EXCEPT ![t] = [kind |-> "authenticate", token |-> 0, user |-> username]]
  /\ pc' = [pc EXCEPT ![t] = "au_recv"]
  /\ UNCHANGED <<now, useStore, lastResponse, store, nextId, response>>
  /\ UNCHANGED fsVars

\* AnswerErr without the status check of auth.go:112 and auth.go:151
AnswerErr_NoStatusCheck(ans) ==
  IF ans.transport THEN "transport"
  ELSE IF ~ans.decodes THEN "decode"
  ELSE "nil"

\* the error of Authenticate and of RefreshToken for an answer
\* (auth.go:108-121, auth.go:147-159)
AnswerErr(ans) ==
  IF ans.transport THEN "transport"
  ELSE IF ans.status # StatusOK THEN "unexpected status code"
  ELSE IF ~ans.decodes THEN "decode"
  ELSE "nil"

\* auth.go:108-131: the answer arrives; the deferred Unlock runs on every path
AuthenticateRecv(t, ans) ==
  /\ pc[t] = "au_recv"
  /\ AnswerErr(ans) = "nil" => nextId <= MaxIssued
  /\ IF AnswerErr(ans) = "nil"
       THEN LET r == DecodedResponse(nextId, arg[t], ans.body, now) IN
              /\ IF useStore
                   THEN /\ store' = StoreSet(arg[t], r)
                        /\ UNCHANGED lastResponse
                   ELSE /\ lastResponse' = r
                        /\ UNCHANGED store
              /\ nextId' = nextId + 1
       ELSE UNCHANGED <<lastResponse, store, nextId>>
  /\ mu' = "free"
  /\ req' = [req EXCEPT ![t] = NoReq]
  /\ ret' = [ret EXCEPT ![t] = Returned(0, 0, AnswerErr(ans), 0, AnswerKind(ans))]
  /\ pc' = [pc EXCEPT ![t] = "done"]
  /\ UNCHANGED <<now, useStore>>
  /\ UNCHANGED <<op, arg, response, callSent, up>>
  /\ UNCHANGED fsVars

\* ------------------------------------------------------- request options
\* WithHeader (part_000:52-56): r.Header.Set(key, value)
WithHeader(key, value) == [key |-> key, value |-> value]

\* WithContentType (part_000:45-49)
WithContentType(contentType) == WithHeader("Content-Type", contentType)

\* "Bearer " + token (client.go:87)
Bearer(token) == <<"Bearer", token>>

\* doHttpRequest (part_000:118-121): the options run on the request in the
\* order of the slice, each one setting its header
RECURSIVE ApplyOpts(_, _)
ApplyOpts(header, opts) ==
  IF opts = <<>> THEN header
  ELSE ApplyOpts([header EXCEPT ![Head(opts).key] = Head(opts).value], Tail(opts))

\* RequestOpts that puts the authorization ahead of the caller's options
RequestOpts_AuthFirst(opts, token) ==
  <<WithHeader("Authorization", Bearer(token))>> \o opts

\* client.go:87: opts = append(opts, WithHeader("Authorization", "Bearer "+token))
RequestOpts(opts, token) ==
  Append(opts, WithHeader("Authorization", Bearer(token)))

\* the header of the request doRequest sends (client.go:87-95)
RequestHeader(opts, token) ==
  ApplyOpts([h \in HeaderNames |-> Unset], RequestOpts(opts, token))

\* the operations of the client that go through doRequest
ClientOps == {"ChunkedUpload", "DownloadFile"}

\* the form fields of a request with a session identifier for every chunk
FormFields_NewIdentifier(u) ==
  [u.fields EXCEPT !.resumableIdentifier = <<@[1], u.chunk>>]

\* uploadChunk writes the fields into the form (files.go:107-111)
FormFields(u) == u.fields

\* ------------------------------------------------- returning from GetToken
\* GetToken hands (tok, err) to its caller: the caller of the manager
\* (auth.go:171), or doRequest (client.go:81-96), which gives up on an error
\* and otherwise sends the request with the bearer token
GetTokenReturns(t, tok, exp, err, answer) ==
  /\ response' = [response EXCEPT ![t] = NilResponse]
  /\ IF op[t] \in ClientOps /\ err = "nil"
       THEN /\ pc' = [pc EXCEPT ![t] =
                        IF op[t] = "ChunkedUpload" THEN "up_recv" ELSE "dl_recv"]
            /\ req' = [req EXCEPT ![t] =
                         [kind |-> IF op[t] = "ChunkedUpload" THEN "upload" ELSE "download",
                          token |-> tok, user |-> ""]]
            /\ up' = [up EXCEPT ![t].sent = Append(@,
                        [chunk |-> up[t].chunk, declared |-> up[t].chunkSize,
                         offset |-> up[t].inPos - up[t].copied,
                         payload |-> up[t].copied, totalChunks |-> up[t].totalChunks,
                         totalSize |-> up[t].fileSize,
                         fields |-> FormFields(up[t]),
                         header |-> RequestHeader(up[t].opts, tok)])]
            /\ UNCHANGED ret
       ELSE /\ pc' = [pc EXCEPT ![t] = "done"]
            /\ req' = [req EXCEPT ![t] = NoReq]
            /\ ret' = [ret EXCEPT ![t] =
                         IF op[t] \in ClientOps
                           THEN Returned(0, 0, "failed to retrieve token", 0, answer)
                           ELSE [Returned(tok, exp, err, response[t].RefreshToken, answer)
                                   EXCEPT !.grace = pc[t] = "rt_recv"]]
            /\ UNCHANGED up

\* ----------------------------------------------------------- RefreshToken
\* auth.go:137: RefreshToken is called by a caller of the manager
RefreshToken(t) ==
  /\ Begin(t, "RefreshToken", CtxNil)
  /\ response' = [response EXCEPT ![t] = NilResponse]
  /\ req' = [req EXCEPT ![t] = NoReq]
  /\ pc' = [pc EXCEPT ![t] = "rt_lock"]
  /\ UNCHANGED authVars
  /\ UNCHANGED fsVars

\* auth.go:138-145: take the lock, read am.lastResponse.RefreshToken and post
\* it; a nil am.lastResponse is a nil dereference, the panic unwinds through
\* the deferred Unlock and out of the call
RefreshTokenSend(t) ==
  /\ pc[t] = "rt_lock"
  /\ mu = "free"
  /\ IF lastResponse.isNil
       THEN /\ pc' = [pc EXCEPT ![t] = "done"]
            /\ ret' = [ret EXCEPT ![t] =
                         [Returned(0, 0, "panic", response[t].RefreshToken, "none")
                            EXCEPT !.grace = op[t] = "GetToken"]]
            /\ response' = [response EXCEPT ![t] = NilResponse]
            /\ UNCHANGED <<mu, req, callSent>>
       ELSE /\ mu' = t
            /\ req' = [req EXCEPT ![t] =
                         [kind |-> "refresh", token |-> lastResponse.RefreshToken,
                          user |-> lastResponse.Username]]
            /\ callSent' = [callSent EXCEPT ![t] = @ + 1]
            /\ pc' = [pc EXCEPT ![t] = "rt_recv"]
            /\ UNCHANGED <<ret, response>>
  /\ UNCHANGED <<now, useStore, lastResponse, store, nextId>>
  /\ UNCHANGED <<op, arg, up>>
  /\ UNCHANGED fsVars

\* auth.go:147-168: the answer arrives; then, inside GetToken, auth.go:214-221
RefreshTokenRecv(t, ans) ==
  /\ pc[t] = "rt_recv"
  /\ AnswerErr(ans) = "nil" => nextId <= MaxIssued
  /\ IF AnswerErr(ans) = "nil"
       THEN LET r == DecodedResponse(nextId, req[t].user, ans.body, now) IN
              /\ IF useStore
                   THEN /\ store' = StoreSet(r.Username, r)
                        /\ UNCHANGED lastResponse
                   ELSE /\ lastResponse' = r
                        /\ UNCHANGED store
              /\ nextId' = nextId + 1
       ELSE UNCHANGED <<lastResponse, store, nextId>>
  /\ mu' = "free"
  /\ IF op[t] = "RefreshToken"
       THEN /\ pc' = [pc EXCEPT ![t] = "done"]
            /\ req' = [req EXCEPT ![t] = NoReq]
            /\ ret' = [ret EXCEPT ![t] = Returned(0, 0, AnswerErr(ans), 0, AnswerKind(ans))]
            /\ UNCHANGED <<up, response>>
       ELSE IF AnswerErr(ans) # "nil"
         THEN GetTokenReturns(t, 0, 0, "failed to refresh token", AnswerKind(ans))
         ELSE GetTokenReturns(t, response[t].Token, response[t].TokenExpiration,
                              "nil", AnswerKind(ans))
  /\ UNCHANGED <<now, useStore>>
  /\ UNCHANGED <<op, arg, callSent>>
  /\ UNCHANGED fsVars

\* --------------------------------------------------------------- GetToken
\* auth.go:171: GetToken is called by a caller of the manager
GetToken(t, ctxv) ==
  /\ Begin(t, "GetToken", ctxv)
  /\ response' = [response EXCEPT ![t] = NilResponse]
  /\ req' = [req EXCEPT ![t] = NoReq]
  /\ pc' = [pc EXCEPT ![t] = "gt_read"]
  /\ UNCHANGED authVars
  /\ UNCHANGED fsVars

\* auth.go:172-196: read the credential, without the lock
GetTokenRead(t) ==
  /\ pc[t] = "gt_read"
  /\ IF useStore /\ arg[t] = CtxNotString
       THEN GetTokenReturns(t, 0, 0, "ErrUnexpectedType", "none")
       ELSE /\ response' = [response EXCEPT ![t] =
                 IF useStore
                   THEN StoreGet(IF arg[t] = CtxNil THEN defaultUsername ELSE arg[t])
                   ELSE lastResponse]
            /\ pc' = [pc EXCEPT ![t] = "gt_check"]
            /\ UNCHANGED <<req, ret, up>>
  /\ UNCHANGED authVars
  /\ UNCHANGED <<op, arg, callSent>>
  /\ UNCHANGED fsVars

\* GetTokenCheck with the grace-window check of auth.go:210 ahead of the
\* refresh-token check of auth.go:204
GetTokenCheck_GraceFirst(t) ==
  /\ pc[t] = "gt_check"
  /\ IF response[t].isNil \/ response[t].Token = 0
       THEN GetTokenReturns(t, 0, 0, "ErrNoToken", "none")
       ELSE IF response[t].TokenExpiration < now + Grace
         THEN /\ pc' = [pc EXCEPT ![t] = "rt_lock"]
              /\ UNCHANGED <<req, ret, up, response>>
         ELSE IF response[t].RefreshTokenExpiration < now
           THEN GetTokenReturns(t, 0, 0, "ErrExpiredRefreshToken", "none")
           ELSE GetTokenReturns(t, response[t].Token, response[t].TokenExpiration,
                                "nil", "none")
  /\ UNCHANGED authVars
  /\ UNCHANGED <<op, arg, callSent>>
  /\ UNCHANGED fsVars

\* auth.go:198-217: the three checks against the clock
GetTokenCheck(t) ==
  /\ pc[t] = "gt_check"
  /\ IF response[t].isNil \/ response[t].Token = 0
       THEN GetTokenReturns(t, 0, 0, "ErrNoToken", "none")
       ELSE IF response[t].RefreshTokenExpiration < now
         THEN GetTokenReturns(t, 0, 0, "ErrExpiredRefreshToken", "none")
         ELSE IF response[t].TokenExpiration < now + Grace
           THEN /\ pc' = [pc EXCEPT ![t] = "rt_lock"]
                /\ UNCHANGED <<req, ret, up, response>>
           ELSE GetTokenReturns(t, response[t].Token, response[t].TokenExpiration,
                                "nil", "none")
  /\ UNCHANGED authVars
  /\ UNCHANGED <<op, arg, callSent>>
  /\ UNCHANGED fsVars

\* ---------------------------------------------------------- ChunkedUpload
\* Ceil that rounds down
Ceil_Floor(n, d) == n \div d

\* Ceil that rounds down and adds one
Ceil_FloorPlusOne(n, d) == (n \div d) + 1

\* int(math.Ceil(float64(n) / d)) (files.go:169); the float64 quotient is
\* exact enough for every n below 2^53
Ceil(n, d) == -((-n) \div d)

Min(a, b) == IF a < b THEN a ELSE b

\* ---------------------------------------------------------------- strings
\* strings.Trim(s, c) for a cutset of one character
RECURSIVE TrimLeft(_, _)
TrimLeft(s, c) == IF s # <<>> /\ Head(s) = c THEN TrimLeft(Tail(s), c) ELSE s

RECURSIVE TrimRight(_, _)
TrimRight(s, c) ==
  IF s # <<>> /\ s[Len(s)] = c THEN TrimRight(SubSeq(s, 1, Len(s) - 1), c) ELSE s

\* Trim that leaves the end of the string alone
Trim_LeftOnly(s, c) == TrimLeft(s, c)

Trim(s, c) == TrimRight(TrimLeft(s, c), c)

\* strings.Split(s, sep) for a separator of one character: the pieces
\* between the separators, one piece more than there are separators
RECURSIVE Split(_, _)
Split(s, sep) ==
  IF \A i \in 1..Len(s) : s[i] # sep THEN <<s>>
  ELSE LET i == CHOOSE k \in 1..Len(s) :
                  s[k] = sep /\ \A j \in 1..(k - 1) : s[j] # sep
       IN <<SubSeq(s, 1, i - 1)>> \o Split(SubSeq(s, i + 1, Len(s)), sep)

\* strings.Join(elems, sep)
RECURSIVE Join(_, _)
Join(elems, sep) ==
  IF elems = <<>> THEN <<>>
  ELSE IF Len(elems) = 1 THEN elems[1]
  ELSE elems[1] \o sep \o Join(Tail(elems), sep)

\* path.Clean of a path without dots: one slash between the segments, a
\* leading slash kept, no slash at the end; the empty path becomes "."
PathClean(p) ==
  LET segs == SelectSeq(Split(p, Slash), LAMBDA x : x # <<>>)
      rooted == p # <<>> /\ Head(p) = Slash
  IN IF p = <<>> THEN <<".">>
     ELSE IF rooted THEN <<Slash>> \o Join(segs, Slash)
     ELSE Join(segs, Slash)

\* path.Base (part_001:258, files.go:146): the last element of a path, the
\* slashes at the end left out; "." for the empty path and "/" for a path
\* of slashes
PathBase(p) ==
  IF p = <<>> THEN <<".">>
  ELSE IF Trim(p, Slash) = <<>> THEN <<Slash>>
  ELSE LET segs == Split(TrimRight(p, Slash), Slash) IN segs[Len(segs)]

\* path.Dir (files.go:151): the path up to its last slash, cleaned
PathDir(p) ==
  LET slashes == { i \in 1..Len(p) : p[i] = Slash }
  IN IF slashes = {} THEN <<".">>
     ELSE PathClean(SubSeq(p, 1, CHOOSE i \in slashes : \A j \in slashes : j <= i))

\* ------------------------------------------------------- the form fields
\* files.go:151-155: the folder of the upload, with a leading slash
BasePath(filePath) ==
  LET basePath == PathDir(filePath)
  IN IF basePath = <<>> \/ basePath[1] # Slash THEN <<Slash>> \o basePath
     ELSE basePath

\* uuid.NewV7 (files.go:173) for the caller t: an identifier no upload of
\* another caller carries.  A caller runs one upload at a time and only its
\* last upload is kept, so the identifier is written as the caller and a
\* serial number within the call
NewV7(t) == <<t, 0>>

\* fileName and basePath (files.go:146-155) of the paths the callers upload
UploadNames == [filePath \in UploadPaths |->
                  [fileName |-> PathBase(filePath), basePath |-> BasePath(filePath)]]

\* files.go:178-188: the form fields every chunk request of the call carries
Fields(id, filePath) ==
  [resumableIdentifier |-> id,
   resumableFilename |-> UploadNames[filePath].fileName,
   contextData |-> UploadNames[filePath].basePath,
   resumableChunkSize |-> maxChunkSize]

\* files.go:193-206 and uploadChunk, files.go:101-125, for the locals u: the
\* loop test, the size of this chunk, and io.CopyN of that many bytes out of
\* in, where an early io.EOF is not an error; then doRequest asks for a
\* token.  files.go:238 when the loop is over
UploadChunk(t, u) ==
  IF u.chunk <= u.totalChunks
    THEN LET chunkSize == IF u.remaining < maxChunkSize
                            THEN u.remaining ELSE maxChunkSize
             copied == Min(chunkSize, u.inLeft)
         IN /\ up' = [up EXCEPT ![t] = [u EXCEPT !.chunkSize = chunkSize,
                                                 !.copied = copied,
                                                 !.inLeft = @ - copied,
                                                 !.inPos = @ + copied,
                                                 !.tokenCalls = @ + 1]]
            /\ pc' = [pc EXCEPT ![t] = "gt_read"]
            /\ ret' = [ret EXCEPT ![t] = NoRet]
    ELSE /\ up' = [up EXCEPT ![t] = u]
         /\ pc' = [pc EXCEPT ![t] = "done"]
         /\ ret' = [ret EXCEPT ![t] = Returned(0, 0, "no response from endpoint", 0, "none")]

\* files.go:145-191: the locals before the loop; in holds inLen bytes
ChunkedUpload(t, ctxv, filePath, fileSize, inLen) ==
  /\ pc[t] \in {"idle", "done"}
  /\ op' = [op EXCEPT ![t] = "ChunkedUpload"]
  /\ arg' = [arg EXCEPT ![t] = ctxv]
  /\ callSent' = [callSent EXCEPT ![t] = 0]
  /\ response' = [response EXCEPT ![t] = NilResponse]
  /\ req' = [req EXCEPT ![t] = NoReq]
  /\ UploadChunk(t, [fileSize |-> fileSize,
                     totalChunks |-> Ceil(fileSize, maxChunkSize),
                     remaining |-> fileSize, chunk |-> 1, chunkSize |-> 0,
                     inLeft |-> inLen, inPos |-> 0, copied |-> 0, sent |-> <<>>,
                     answered |-> 0, accepted |-> 0, tokenCalls |-> 0,
                     last |-> NoAnswer,
                     opts |-> << WithContentType(<<"multipart/form-data", 0>>) >>,
                     fields |-> Fields(NewV7(t), filePath)])
  /\ UNCHANGED authVars
  /\ UNCHANGED fsVars

\* NextIteration that does not count the chunk
NextIteration_NoIncrement(u) == [u EXCEPT !.remaining = @ - u.chunkSize]

\* files.go:235 and the chunk++ of files.go:193: on to the next chunk
NextIteration(u) == [u EXCEPT !.remaining = @ - u.chunkSize, !.chunk = @ + 1]

\* ChunkRejected that takes every status for a success
ChunkRejected_Never(ans) == FALSE

\* files.go:212: the status of the answer is not 200
ChunkRejected(ans) == ans.status # StatusOK

\* IsFinalChunk that takes the first chunk for the final one
IsFinalChunk_First(u) == u.chunk = 1

\* files.go:222: chunk == totalChunks
IsFinalChunk(u) == u.chunk = u.totalChunks

\* files.go:133-137 and files.go:208-236: the answer to the chunk request
UploadRecv(t, ans) ==
  /\ pc[t] = "up_recv"
  /\ req' = [req EXCEPT ![t] = NoReq]
  /\ LET u == [up[t] EXCEPT !.answered = @ + 1,
                            !.accepted = IF ~ans.transport /\ ans.status = StatusOK
                                           THEN @ + 1 ELSE @,
                            !.last = [status |-> ans.status, file |-> ans.file]] IN
       IF ans.transport
         THEN /\ ret' = [ret EXCEPT ![t] = Returned(0, 0, "chunk upload failed", 0, AnswerKind(ans))]
              /\ pc' = [pc EXCEPT ![t] = "done"]
              /\ up' = [up EXCEPT ![t] = u]
         ELSE IF ChunkRejected(ans)
           THEN /\ ret' = [ret EXCEPT ![t] =
                             Returned(0, 0, "chunk upload failed, status", 0, AnswerKind(ans))]
                /\ pc' = [pc EXCEPT ![t] = "done"]
                /\ up' = [up EXCEPT ![t] = u]
           ELSE IF IsFinalChunk(u)
             THEN /\ ret' = [ret EXCEPT ![t] =
                               IF ans.decodes
                                 THEN [Returned(0, 0, "nil", 0, AnswerKind(ans)) EXCEPT !.file = ans.file]
                                 ELSE Returned(0, 0, "decode", 0, AnswerKind(ans))]
                  /\ pc' = [pc EXCEPT ![t] = "done"]
                  /\ up' = [up EXCEPT ![t] = u]
             ELSE UploadChunk(t, NextIteration(u))
  /\ UNCHANGED authVars
  /\ UNCHANGED <<op, arg, response, callSent>>
  /\ UNCHANGED fsVars

\* ----------------------------------------------------------- DownloadFile
\* files.go:355-356: DownloadFile hands the caller's options to doRequest,
\* which asks for a token first
DownloadFile(t, ctxv, opts) ==
  /\ pc[t] \in {"idle", "done"}
  /\ op' = [op EXCEPT ![t] = "DownloadFile"]
  /\ arg' = [arg EXCEPT ![t] = ctxv]
  /\ callSent' = [callSent EXCEPT ![t] = 0]
  /\ response' = [response EXCEPT ![t] = NilResponse]
  /\ req' = [req EXCEPT ![t] = NoReq]
  /\ ret' = [ret EXCEPT ![t] = NoRet]
  /\ up' = [up EXCEPT ![t] = [NoUpload EXCEPT !.opts = opts, !.tokenCalls = 1]]
  /\ pc' = [pc EXCEPT ![t] = "gt_read"]
  /\ UNCHANGED authVars
  /\ UNCHANGED fsVars

\* files.go:358-366: the answer to the download request
DownloadRecv(t, ans) ==
  /\ pc[t] = "dl_recv"
  /\ req' = [req EXCEPT ![t] = NoReq]
  /\ up' = [up EXCEPT ![t].answered = @ + 1,
                       ![t].last = [status |-> ans.status, file |-> NilFile]]
  /\ ret' = [ret EXCEPT ![t] =
               Returned(0, 0,
                        IF ans.transport THEN "transport"
                        ELSE IF ans.status # StatusOK THEN "ErrUnexpectedStatus"
                        ELSE "nil",
                        0, IF ans.transport THEN "transport"
                           ELSE IF ans.status # StatusOK THEN "status" ELSE "ok")]
  /\ pc' = [pc EXCEPT ![t] = "done"]
  /\ UNCHANGED authVars
  /\ UNCHANGED <<op, arg, response, callSent>>
  /\ UNCHANGED fsVars

\* -------------------------------------------------------------- ParsePath
\* client.go:99-114
ParsePath(path) ==
  LET trimmedPath == Trim(path, Slash)
      segments == Split(trimmedPath, Slash)
  IN IF Len(segments) > 1
       THEN [basePath |-> <<Slash>> \o Join(SubSeq(segments, 1, Len(segments) - 1), <<Slash>>),
             lastSegment |-> segments[Len(segments)]]
       ELSE [basePath |-> <<Slash>>, lastSegment |-> segments[1]]

\* ---------------------------------------------------------------- Flatten
\* files.go:700-708: the folder, then the flattened subfolders in their order
RECURSIVE Flatten(_)
RECURSIVE FlattenAll(_)
FlattenAll(folders) ==
  IF folders = <<>> THEN <<>>
  ELSE Flatten(Head(folders)) \o FlattenAll(Tail(folders))

\* Flatten that puts the folder behind its subfolders
Flatten_PostOrder(f) == FlattenAll(f.Subfolders) \o <<f>>

Flatten(f) == <<f>> \o FlattenAll(f.Subfolders)

\* ------------------------------------------------------------ the backend
\* the folder the backend holds under the segments segs below folder f, or
\* NilPtr
RECURSIVE Descend(_, _)
Descend(f, segs) ==
  IF segs = <<>> THEN Ptr(f)
  ELSE LET hits == { i \in 1..Len(f.Subfolders) : f.Subfolders[i].Name = Head(segs) }
       IN IF hits = {} THEN NilPtr
          ELSE Descend(f.Subfolders[CHOOSE i \in hits : \A j \in hits : i <= j],
                       Tail(segs))

\* the folder the backend holds at a path
Lookup(path) ==
  IF Trim(path, Slash) = <<>> THEN Ptr(remote)
  ELSE Descend(remote, Split(Trim(path, Slash), Slash))

\* the answer of the backend to the folders request (files.go:252) and to
\* the folder request (files.go:274-276), for each way a request can end
FoldersAnswer(kind) ==
  [kind |-> kind, success |-> kind = "ok", message |-> "",
   folder |-> IF kind = "ok" THEN remote ELSE ZeroFolder]

FolderAnswer(kind, path) ==
  IF kind = "ok" /\ ~Lookup(path).nil
    THEN [kind |-> "ok", success |-> TRUE, message |-> "", folder |-> Lookup(path).v]
  ELSE [kind |-> kind, success |-> FALSE,
        message |-> IF kind = "ok" THEN "Folder not found" ELSE "",
        folder |-> ZeroFolder]

\* ------------------------------------------------------------------- Find
\* the error of a request that did not give a decoded body (client.go:83-85,
\* files.go:254-266, files.go:278-290), or "nil"
RequestErr(answer) ==
  CASE answer.kind = "token" -> "failed to retrieve token"
    [] answer.kind = "transport" -> "transport"
    [] answer.kind = "status" -> "ErrUnexpectedStatus"
    [] answer.kind = "undecodable" -> "decode"
    [] OTHER -> "nil"

\* Find hands (folder, file, err) to its caller (files.go:401)
FindReturns(f, folder, file, err) ==
  [f EXCEPT !.pc = "done", !.answer = NoFsAnswer,
            !.folder = folder, !.file = file, !.err = err]

\* FindScan that hands back the scanned folder next to the file
FindScan_KeepsFolder(f, folder, name) ==
  LET files == { i \in 1..Len(folder.Files) : folder.Files[i].Name = name }
      subs == { i \in 1..Len(folder.Subfolders) : folder.Subfolders[i].Name = name }
  IN IF files # {}
       THEN FindReturns(f, Ptr(folder),
                        Ptr(folder.Files[CHOOSE i \in files : \A j \in files : i <= j]), "nil")
     ELSE IF subs # {}
       THEN FindReturns(f, Ptr(folder.Subfolders[CHOOSE i \in subs : \A j \in subs : i <= j]),
                        NilPtr, "nil")
     ELSE FindReturns(f, NilPtr, NilPtr, "ErrNoFile")

\* FindScan that looks at the subfolders first
FindScan_FoldersFirst(f, folder, name) ==
  LET files == { i \in 1..Len(folder.Files) : folder.Files[i].Name = name }
      subs == { i \in 1..Len(folder.Subfolders) : folder.Subfolders[i].Name = name }
  IN IF subs # {}
       THEN FindReturns(f, Ptr(folder.Subfolders[CHOOSE i \in subs : \A j \in subs : i <= j]),
                        NilPtr, "nil")
     ELSE IF files # {}
       THEN FindReturns(f, NilPtr,
                        Ptr(folder.Files[CHOOSE i \in files : \A j \in files : i <= j]), "nil")
     ELSE FindReturns(f, NilPtr, NilPtr, "ErrNoFile")

\* files.go:428-440: the first file named name, else the first subfolder
\* named name, else ErrNoFile
FindScan(f, folder, name) ==
  LET files == { i \in 1..Len(folder.Files) : folder.Files[i].Name = name }
      subs == { i \in 1..Len(folder.Subfolders) : folder.Subfolders[i].Name = name }
  IN IF files # {}
       THEN FindReturns(f, NilPtr,
                        Ptr(folder.Files[CHOOSE i \in files : \A j \in files : i <= j]), "nil")
     ELSE IF subs # {}
       THEN FindReturns(f, Ptr(folder.Subfolders[CHOOSE i \in subs : \A j \in subs : i <= j]),
                        NilPtr, "nil")
     ELSE FindReturns(f, NilPtr, NilPtr, "ErrNoFile")

\* files.go:402-421 with doRequest (client.go:78-96): parse the path and ask
\* for the folder list (parent "/") or for the parent folder; kind tells how
\* the request ends, and the backend answers from the tree it holds now
FindRequest(f, file, kind) ==
  LET parsed == ParsePath(file)
      base == parsed.basePath
      name == parsed.lastSegment
      atRoot == base = <<>> \/ base = <<Slash>>
      g == [f EXCEPT !.base = base, !.name = name]
  IN IF kind = "token"
       THEN FindReturns(g, NilPtr, NilPtr, "failed to retrieve token")
       ELSE [g EXCEPT !.pc = "find_resp",
                      !.sent = Append(@, [kind |-> IF atRoot THEN "folders" ELSE "folder",
                                          ends |-> kind,
                                          parent |-> <<>>,
                                          folder |-> IF atRoot THEN <<>> ELSE base]),
                      !.answer = IF atRoot THEN FoldersAnswer(kind)
                                 ELSE FolderAnswer(kind, base)]

\* files.go:254-269 and files.go:407-417 for the folder list, files.go:278-300
\* and files.go:421-425 for one folder; then the scan
FindResponse(f) ==
  LET answer == f.answer
      atRoot == f.base = <<>> \/ f.base = <<Slash>>
  IN IF RequestErr(answer) # "nil"
       THEN FindReturns(f, NilPtr, NilPtr, RequestErr(answer))
     ELSE IF atRoot
       THEN LET folders == Flatten(answer.folder)
                g == [f EXCEPT !.folders = Ptr(folders), !.snapshot = Ptr(folders[1])]
            IN IF f.name = <<>>
                 THEN FindReturns(g, Ptr(folders[1]), NilPtr, "nil")
                 ELSE FindScan(g, folders[1], f.name)
     ELSE IF ~answer.success
       THEN FindReturns(f, NilPtr, NilPtr,
                        IF answer.message = "Folder not found"
                          THEN "ErrNoFolder" ELSE "received error from API")
     ELSE FindScan([f EXCEPT !.snapshot = Ptr(answer.folder)], answer.folder, f.name)

\* a caller calls Find (files.go:401)
Find(t, file, kind) ==
  /\ fs[t].pc \in {"idle", "done"}
  /\ fs' = [fs EXCEPT ![t] =
              FindRequest([NoFsCall EXCEPT !.op = "Find", !.path = file], file, kind)]
  /\ UNCHANGED <<authVars, callVars, fileVars, remote>>

\* the answer to Find's request arrives
FindRecv(t) ==
  /\ fs[t].pc = "find_resp"
  /\ fs[t].op = "Find"
  /\ fs' = [fs EXCEPT ![t] = FindResponse(fs[t])]
  /\ UNCHANGED <<authVars, callVars, fileVars, remote>>

\* ------------------------------------------------------------------ Mkdir
\* path.Join(parentFolder.Path, sub) (part_001:138): the elements that are
\* not empty joined by a slash and cleaned; "" when every element is empty
PathJoin(a, b) ==
  IF a = <<>> /\ b = <<>> THEN <<>>
  ELSE IF a = <<>> THEN PathClean(b)
  ELSE IF b = <<>> THEN PathClean(a)
  ELSE PathClean(a \o <<Slash>> \o b)

\* Folder.Subfolder (files.go:710-718): the first subfolder with that name,
\* or nil
Subfolder(f, name) ==
  LET hits == { i \in 1..Len(f.Subfolders) : f.Subfolders[i].Name = name }
  IN IF hits = {} THEN NilPtr
     ELSE Ptr(f.Subfolders[CHOOSE i \in hits : \A j \in hits : i <= j])

\* the tree f after the backend added an empty folder name to the folder
\* that the segments segs lead to
RECURSIVE AddFolder(_, _, _)
AddFolder(f, segs, name) ==
  IF segs = <<>>
    THEN [f EXCEPT !.Subfolders =
            Append(@, [Name |-> name, Path |-> ChildPath(f.Path, name),
                       Subfolders |-> <<>>, Files |-> <<>>])]
  ELSE LET hits == { i \in 1..Len(f.Subfolders) : f.Subfolders[i].Name = Head(segs) }
           k == CHOOSE i \in hits : \A j \in hits : i <= j
       IN [f EXCEPT !.Subfolders[k] = AddFolder(@, Tail(segs), name)]

\* how many folders named name the folder f holds
Copies(f, name) ==
  Cardinality({ i \in 1..Len(f.Subfolders) : f.Subfolders[i].Name = name })

\* the backend carries out a create-folder request that ends as kind: it
\* has a folder at parent, the name is not empty, and it does not look for
\* a folder of the same name (it stops at MaxCopies of them)
Creates(kind, parent, folder) ==
  /\ kind = "ok"
  /\ folder # <<>>
  /\ ~Lookup(parent).nil
  /\ Copies(Lookup(parent).v, folder) < MaxCopies

\* the tree of the backend after a create-folder request
RemoteAfterCreate(kind, parent, folder) ==
  IF Creates(kind, parent, folder)
    THEN AddFolder(remote,
                   IF Trim(parent, Slash) = <<>> THEN <<>>
                   ELSE Split(Trim(parent, Slash), Slash),
                   folder)
    ELSE remote

\* the answer of the backend to a create-folder request
CreateAnswer(kind, parent, folder) ==
  IF Creates(kind, parent, folder)
    THEN [kind |-> "ok", success |-> TRUE, message |-> "",
          folder |-> [Name |-> folder, Path |-> ChildPath(Lookup(parent).v.Path, folder),
                      Subfolders |-> <<>>, Files |-> <<>>]]
  ELSE [kind |-> kind, success |-> FALSE,
        message |-> IF kind = "ok" THEN "cannot create" ELSE "",
        folder |-> ZeroFolder]

\* client.CreateFolder up to its request (files.go:450-456)
CreateFolderRequest(f, folder, kind) ==
  LET parsed == ParsePath(folder)
  IN IF kind = "token"
       THEN [f EXCEPT !.pc = "done", !.err = "failed to retrieve token"]
       ELSE [f EXCEPT !.pc = "create_resp",
                      !.sent = Append(@, [kind |-> "create",
                                          ends |-> kind,
                                          parent |-> parsed.basePath,
                                          folder |-> parsed.lastSegment]),
                      !.answer = CreateAnswer(kind, parsed.basePath, parsed.lastSegment)]

\* client.CreateFolder from the answer on (files.go:458-476), and the end of
\* Mkdir (part_001:140-147)
CreateFolderResponse(f) ==
  LET answer == f.answer
      err == IF RequestErr(answer) # "nil" THEN RequestErr(answer)
             ELSE IF ~answer.success THEN "failed to create directory"
             ELSE "nil"
  IN [f EXCEPT !.pc = "done", !.answer = NoFsAnswer, !.err = err]

\* FileSystem.Mkdir up to the request of Find (part_001:114-121)
Mkdir(t, name, kind) ==
  LET parsed == ParsePath(name)
      parent == parsed.basePath
      sub == parsed.lastSegment
      existed == ~Lookup(parent).nil /\ ~Subfolder(Lookup(parent).v, sub).nil
  IN /\ fs[t].pc \in {"idle", "done"}
     /\ fs' = [fs EXCEPT ![t] =
                 FindRequest([NoFsCall EXCEPT !.op = "Mkdir", !.path = name,
                                              !.sub = sub, !.existed = existed],
                             parent, kind)]
     /\ UNCHANGED <<authVars, callVars, fileVars, remote>>

\* FileSystem.Mkdir from the answer to Find's request up to the request of
\* CreateFolder (part_001:121-138): Find returns; an error ends the call;
\* Subfolder is called on the folder Find returned, which panics when that
\* is nil; a subfolder that is there ends the call with success; otherwise
\* the create-folder request goes out and the backend carries it out
MkdirFind(t, kind) ==
  LET g == FindResponse(fs[t])
      target == PathJoin(g.folder.v.Path, g.sub)
      h == CreateFolderRequest([g EXCEPT !.err = "none"], target, kind)
      parsed == ParsePath(target)
  IN /\ fs[t].pc = "find_resp"
     /\ fs[t].op = "Mkdir"
     /\ IF g.err # "nil"
          THEN fs' = [fs EXCEPT ![t] = g] /\ UNCHANGED remote
        ELSE IF g.folder.nil
          THEN fs' = [fs EXCEPT ![t] = [g EXCEPT !.pc = "panic", !.err = "none"]]
               /\ UNCHANGED remote
        ELSE IF ~Subfolder(g.folder.v, g.sub).nil
          THEN fs' = [fs EXCEPT ![t] = g] /\ UNCHANGED remote
        ELSE /\ fs' = [fs EXCEPT ![t] = h]
             /\ remote' = IF kind = "token" THEN remote
                           ELSE RemoteAfterCreate(kind, parsed.basePath, parsed.lastSegment)
     /\ UNCHANGED <<authVars, callVars, fileVars>>

\* FileSystem.Mkdir from the answer to the create-folder request on
\* (part_001:140-147)
MkdirCreate(t) ==
  /\ fs[t].pc = "create_resp"
  /\ fs[t].op = "Mkdir"
  /\ fs' = [fs EXCEPT ![t] = CreateFolderResponse(fs[t])]
  /\ UNCHANGED <<authVars, callVars, fileVars, remote>>

\* --------------------------------------------------------------- MkdirAll
\* the folders of a path that the backend does not hold, from the top
\* down, each as the parent path and the name a create-folder request for
\* it carries
RECURSIVE MissingFrom(_, _, _)
MissingFrom(folder, at, segs) ==
  IF segs = <<>> THEN <<>>
  ELSE LET sub == IF folder.nil THEN NilPtr ELSE Subfolder(folder.v, Head(segs))
           rest == MissingFrom(sub, ChildPath(at, Head(segs)), Tail(segs))
       IN IF sub.nil THEN <<[parent |-> at, folder |-> Head(segs)]>> \o rest
          ELSE rest

MissingFolders(path) ==
  MissingFrom(Ptr(remote), <<Slash>>,
              SelectSeq(Split(path, Slash), LAMBDA x : x # <<>>))

\* the tree of the backend after the call f sent its last request: it
\* changes when that was a create-folder request
RemoteAfter(f, kind) ==
  IF f.pc = "create_resp"
    THEN RemoteAfterCreate(kind, f.sent[Len(f.sent)].parent, f.sent[Len(f.sent)].folder)
    ELSE remote

\* FileSystem.recursiveMkdir (part_001:185-203) up to its next request: a
\* segment that currentFolder holds is walked into, one that it does not
\* hold is created
RECURSIVE recursiveMkdir(_, _, _, _)
recursiveMkdir(f, parts, currentFolder, kind) ==
  LET subfolder == Subfolder(currentFolder, Head(parts))
  IN IF subfolder.nil
       THEN CreateFolderRequest([f EXCEPT !.parts = parts],
                                PathJoin(currentFolder.Path, Head(parts)), kind)
     ELSE IF Len(parts) > 1
       THEN recursiveMkdir(f, Tail(parts), subfolder.v, kind)
     ELSE [f EXCEPT !.pc = "done", !.err = "nil"]

\* FileSystem.MkdirAll up to the request of Find (part_001:150-154)
MkdirAll(t, path, kind) ==
  /\ \A u \in Threads : fs[u].pc \in {"idle", "done"}
  /\ fs' = [fs EXCEPT ![t] =
              FindRequest([NoFsCall EXCEPT !.op = "MkdirAll", !.path = path,
                                           !.expected = MissingFolders(path)],
                          path, kind)]
  /\ UNCHANGED <<authVars, callVars, fileVars, remote>>

\* FileSystem.MkdirAll from the answer to Find's request up to the request
\* of GetFolders (part_001:154-166): ErrNoFile goes on, another error and a
\* folder that was found end the call
MkdirAllFind(t, kind) ==
  LET g == FindResponse(fs[t])
      h == [g EXCEPT !.err = "none"]
  IN /\ fs[t].pc = "find_resp"
     /\ fs[t].op = "MkdirAll"
     /\ fs' = [fs EXCEPT ![t] =
                 IF g.err # "ErrNoFile" /\ g.err # "nil" THEN g
                 ELSE IF g.err = "nil" /\ ~g.folder.nil THEN g
                 ELSE IF kind = "token"
                   THEN [h EXCEPT !.pc = "done", !.err = "failed to retrieve token"]
                 ELSE [h EXCEPT !.pc = "folders_resp",
                                !.sent = Append(@, [kind |-> "folders", ends |-> kind,
                                                    parent |-> <<>>, folder |-> <<>>]),
                                !.answer = FoldersAnswer(kind)]]
     /\ UNCHANGED <<authVars, callVars, fileVars, remote>>

\* FileSystem.MkdirAll from the answer to the folders request up to the
\* first create-folder request of recursiveMkdir (part_001:166-176)
MkdirAllFolders(t, kind) ==
  LET f == fs[t]
      folders == Flatten(f.answer.folder)
      parts == Split(f.path, Slash)
      g == IF RequestErr(f.answer) # "nil"
             THEN [f EXCEPT !.pc = "done", !.answer = NoFsAnswer,
                            !.err = RequestErr(f.answer)]
             ELSE recursiveMkdir([f EXCEPT !.answer = NoFsAnswer, !.folders = Ptr(folders)],
                                 parts, folders[1], kind)
  IN /\ f.pc = "folders_resp"
     /\ f.op = "MkdirAll"
     /\ fs' = [fs EXCEPT ![t] = g]
     /\ remote' = RemoteAfter(g, kind)
     /\ UNCHANGED <<authVars, callVars, fileVars>>

\* FileSystem.recursiveMkdir from the answer to a create-folder request on
\* (part_001:190-202): an error ends the call, otherwise the walk goes on in
\* the folder of the answer
MkdirAllCreate(t, kind) ==
  LET f == fs[t]
      g == CreateFolderResponse(f)
      h == IF g.err = "nil" /\ Len(f.parts) > 1
             THEN recursiveMkdir([g EXCEPT !.pc = "walk", !.err = "none"],
                                 Tail(f.parts), f.answer.folder, kind)
             ELSE g
  IN /\ f.pc = "create_resp"
     /\ f.op = "MkdirAll"
     /\ fs' = [fs EXCEPT ![t] = h]
     /\ remote' = RemoteAfter(h, kind)
     /\ UNCHANGED <<authVars, callVars, fileVars>>

\* ------------------------------------------------- Remove, Rename, Stat
\* the segments of a path that the backend walks
Segments(path) ==
  IF Trim(path, Slash) = <<>> THEN <<>> ELSE Split(Trim(path, Slash), Slash)

\* a sequence without its k-th element
RemoveAt(seq, k) == SubSeq(seq, 1, k - 1) \o SubSeq(seq, k + 1, Len(seq))

\* the tree f without the folder that the segments segs lead to
RECURSIVE DropFolder(_, _)
DropFolder(f, segs) ==
  LET hits == { i \in 1..Len(f.Subfolders) : f.Subfolders[i].Name = Head(segs) }
      k == CHOOSE i \in hits : \A j \in hits : i <= j
  IN IF hits = {} THEN f
     ELSE IF Len(segs) = 1 THEN [f EXCEPT !.Subfolders = RemoveAt(@, k)]
     ELSE [f EXCEPT !.Subfolders[k] = DropFolder(@, Tail(segs))]

\* the tree f with the folder child added to the folder that segs lead to
RECURSIVE PutFolder(_, _, _)
PutFolder(f, segs, child) ==
  IF segs = <<>> THEN [f EXCEPT !.Subfolders = Append(@, child)]
  ELSE LET hits == { i \in 1..Len(f.Subfolders) : f.Subfolders[i].Name = Head(segs) }
           k == CHOOSE i \in hits : \A j \in hits : i <= j
       IN [f EXCEPT !.Subfolders[k] = PutFolder(@, Tail(segs), child)]

\* the folder f under a new name at a new path, its folders with it
RECURSIVE Repath(_, _, _)
Repath(f, name, path) ==
  [f EXCEPT !.Name = name, !.Path = path,
            !.Subfolders = [i \in 1..Len(f.Subfolders) |->
               Repath(f.Subfolders[i], f.Subfolders[i].Name,
                      ChildPath(path, f.Subfolders[i].Name))]]

\* the tree f without the file id
RECURSIVE DropFile(_, _)
DropFile(f, id) ==
  [f EXCEPT !.Files = SelectSeq(@, LAMBDA x : x.ID # id),
            !.Subfolders = [i \in 1..Len(f.Subfolders) |-> DropFile(f.Subfolders[i], id)]]

\* the tree f with the file id under the name name
RECURSIVE NameFile(_, _, _)
NameFile(f, id, name) ==
  [f EXCEPT !.Files = [i \in 1..Len(f.Files) |->
                         IF f.Files[i].ID = id THEN [f.Files[i] EXCEPT !.Name = name]
                         ELSE f.Files[i]],
            !.Subfolders = [i \in 1..Len(f.Subfolders) |->
                              NameFile(f.Subfolders[i], id, name)]]

\* the tree f without the files whose IDs are among ids
RECURSIVE TakeFiles(_, _)
TakeFiles(f, ids) ==
  [f EXCEPT !.Files = SelectSeq(@, LAMBDA x : x.ID \notin ids),
            !.Subfolders = [i \in 1..Len(f.Subfolders) |->
                              TakeFiles(f.Subfolders[i], ids)]]

\* the tree f with the files added to the folder that segs lead to
RECURSIVE PutFiles(_, _, _)
PutFiles(f, segs, files) ==
  IF segs = <<>> THEN [f EXCEPT !.Files = @ \o files]
  ELSE LET hits == { i \in 1..Len(f.Subfolders) : f.Subfolders[i].Name = Head(segs) }
           k == CHOOSE i \in hits : \A j \in hits : i <= j
       IN [f EXCEPT !.Subfolders[k] = PutFiles(@, Tail(segs), files)]

\* the files of the tree f
RECURSIVE FilesOf(_)
FilesOf(f) ==
  Elems(f.Files) \cup UNION { FilesOf(f.Subfolders[i]) : i \in 1..Len(f.Subfolders) }

\* a request that changes what the backend holds: the requests of
\* DeleteFolder (files.go:483-486), DeleteFiles (files.go:333-335), RenameFile
\* (files.go:548-550), MoveFiles (files.go:516-519) and MoveFolder
\* (files.go:650-655, and as Rename calls it with a name, part_001:256)
DeleteFolderRequest_NoParent(folder, kind) ==
  [kind |-> "delete-folder", ends |-> kind,
   parent |-> <<Slash>>, folder |-> ParsePath(folder).lastSegment]

DeleteFolderRequest(folder, kind) ==
  [kind |-> "delete-folder", ends |-> kind,
   parent |-> ParsePath(folder).basePath, folder |-> ParsePath(folder).lastSegment]

DeleteFilesRequest(id, kind) ==
  [kind |-> "delete-files", ends |-> kind, ids |-> <<id>>]

RenameFileRequest(fileID, name, kind) ==
  [kind |-> "edit-file", ends |-> kind, id |-> fileID, newFilename |-> name]

MoveFolderRequest(folder, newParentFolder, name, kind) ==
  [kind |-> "patch-folder", ends |-> kind, folder |-> folder,
   newParentFolder |-> newParentFolder, newFolderName |-> name]

MoveFilesRequest(folder, fileIDs, kind) ==
  [kind |-> "move-files", ends |-> kind, newFolder |-> folder, ids |-> fileIDs]

\* the files the backend holds under the IDs ids, in the order of ids
HeldFiles(ids) ==
  [i \in 1..Len(ids) |-> CHOOSE x \in FilesOf(remote) : x.ID = ids[i]]

\* the backend carries out the request r: it deletes a folder that it holds
\* (not the root), deletes a file, renames a file, or puts a folder under a
\* new name into the folder newParentFolder (the folder it is in when that
\* is empty), unless a folder of that name is there or the new place is
\* inside the folder that moves; or it puts files that it holds into the
\* folder newFolder, unless another file of one of their names is there
CarriesOut(r) ==
  /\ r.ends = "ok"
  /\ CASE r.kind = "delete-folder" ->
             r.folder # <<>> /\ ~Lookup(ChildPath(r.parent, r.folder)).nil
        [] r.kind = "delete-files" ->
             \E x \in FilesOf(remote) : x.ID = r.ids[1]
        [] r.kind = "edit-file" ->
             r.newFilename # <<>> /\ \E x \in FilesOf(remote) : x.ID = r.id
        [] r.kind = "patch-folder" ->
             LET to == IF r.newParentFolder = <<>> THEN ParsePath(r.folder).basePath
                       ELSE r.newParentFolder
             IN /\ Segments(r.folder) # <<>>
                /\ ~Lookup(r.folder).nil
                /\ r.newFolderName # <<>>
                /\ ~Lookup(to).nil
                /\ Subfolder(Lookup(to).v, r.newFolderName).nil
                /\ ~IsPrefix(Segments(r.folder), Segments(to))
        [] r.kind = "move-files" ->
             /\ ~Lookup(r.newFolder).nil
             /\ \A i \in 1..Len(r.ids) : \E x \in FilesOf(remote) : x.ID = r.ids[i]
             /\ \A i \in 1..Len(r.ids) :
                  /\ \A j \in 1..Len(r.ids) :
                       (j # i) => /\ r.ids[j] # r.ids[i]
                                  /\ HeldFiles(r.ids)[j].Name # HeldFiles(r.ids)[i].Name
                  /\ \A x \in Elems(Lookup(r.newFolder).v.Files) :
                       x.Name = HeldFiles(r.ids)[i].Name => x.ID = r.ids[i]
        [] OTHER -> FALSE

\* the tree of the backend after the request r
RemoteAfterRequest(r) ==
  IF ~CarriesOut(r) THEN remote
  ELSE CASE r.kind = "delete-folder" ->
              DropFolder(remote, Segments(ChildPath(r.parent, r.folder)))
         [] r.kind = "delete-files" -> DropFile(remote, r.ids[1])
         [] r.kind = "edit-file" -> NameFile(remote, r.id, r.newFilename)
         [] r.kind = "patch-folder" ->
              LET to == IF r.newParentFolder = <<>> THEN ParsePath(r.folder).basePath
                        ELSE r.newParentFolder
                  moved == Repath(Lookup(r.folder).v, r.newFolderName,
                                  ChildPath(Lookup(to).v.Path, r.newFolderName))
              IN PutFolder(DropFolder(remote, Segments(r.folder)), Segments(to), moved)
         [] r.kind = "move-files" ->
              PutFiles(TakeFiles(remote, Elems(r.ids)), Segments(r.newFolder),
                       HeldFiles(r.ids))

\* the answer of the backend to the request r
RequestAnswer(r) ==
  [kind |-> r.ends, success |-> CarriesOut(r),
   message |-> IF r.ends = "ok" /\ ~CarriesOut(r) THEN "cannot do that" ELSE "",
   folder |-> ZeroFolder]

\* the call f sends the request r, or fails in GetToken (client.go:81-85)
SendRequest(f, r) ==
  IF r.ends = "token"
    THEN [f EXCEPT !.pc = "done", !.err = "failed to retrieve token"]
    ELSE [f EXCEPT !.pc = "change_resp", !.err = "none",
                   !.sent = Append(@, r), !.answer = RequestAnswer(r)]

\* the tree of the backend after the call sent r
RemoteAfterSend(r) == IF r.ends = "token" THEN remote ELSE RemoteAfterRequest(r)

\* the end of DeleteFolder (files.go:488-506), DeleteFiles (files.go:337-351,
\* which does not look at Success), RenameFile (files.go:552-570), MoveFiles
\* (files.go:521-539) and MoveFolder (files.go:657-675)
ChangeResponse(f) ==
  LET answer == f.answer
      r == f.sent[Len(f.sent)]
      err == IF RequestErr(answer) # "nil" THEN RequestErr(answer)
             ELSE IF r.kind = "delete-files" THEN "nil"
             ELSE IF ~answer.success THEN "request refused"
             ELSE "nil"
  IN [f EXCEPT !.pc = "done", !.answer = NoFsAnswer, !.err = err]

\* what the backend holds at a path: the folder or the file that the
\* segments lead to, a file before a folder of the same name
RECURSIVE EntryFrom(_, _)
EntryFrom(f, segs) ==
  IF segs = <<>> THEN [kind |-> "folder", folder |-> f]
  ELSE LET files == { i \in 1..Len(f.Files) : f.Files[i].Name = Head(segs) }
           sub == Subfolder(f, Head(segs))
       IN IF Len(segs) = 1 /\ files # {}
            THEN [kind |-> "file",
                  file |-> f.Files[CHOOSE i \in files : \A j \in files : i <= j]]
          ELSE IF sub.nil THEN [kind |-> "absent"]
          ELSE EntryFrom(sub.v, Tail(segs))

EntryAt(path) == EntryFrom(remote, Segments(path))

\* FileSystem.Remove up to the request of Find (part_001:79-80)
Remove(t, name, kind) ==
  /\ \A u \in Threads : fs[u].pc \in {"idle", "done"}
  /\ fs' = [fs EXCEPT ![t] =
              FindRequest([NoFsCall EXCEPT !.op = "Remove", !.path = name,
                                           !.was = Ptr(EntryAt(name))],
                          name, kind)]
  /\ UNCHANGED <<authVars, callVars, fileVars, remote>>

\* the request Remove sends for what Find returned (part_001:88-93)
RemoveRequest(g, kind) ==
  IF ~g.folder.nil THEN DeleteFolderRequest(g.folder.v.Path, kind)
  ELSE DeleteFilesRequest(g.file.v.ID, kind)

\* FileSystem.Remove from the answer to Find's request up to its delete
\* request (part_001:80-93)
RemoveFind(t, kind) ==
  LET g == FindResponse(fs[t])
  IN /\ fs[t].pc = "find_resp"
     /\ fs[t].op = "Remove"
     /\ IF g.err # "nil"
          THEN fs' = [fs EXCEPT ![t] = g] /\ UNCHANGED remote
          ELSE /\ fs' = [fs EXCEPT ![t] = SendRequest(g, RemoveRequest(g, kind))]
               /\ remote' = RemoteAfterSend(RemoveRequest(g, kind))
     /\ UNCHANGED <<authVars, callVars, fileVars>>

\* FileSystem.Rename up to the request of Find (part_001:239-240)
Rename(t, oldName, newName, kind) ==
  /\ \A u \in Threads : fs[u].pc \in {"idle", "done"}
  /\ fs' = [fs EXCEPT ![t] =
              FindRequest([NoFsCall EXCEPT !.op = "Rename", !.path = oldName,
                                           !.newName = newName,
                                           !.was = Ptr(EntryAt(oldName))],
                          oldName, kind)]
  /\ UNCHANGED <<authVars, callVars, fileVars, remote>>

\* the request Rename sends for what Find returned (part_001:246-259)
RenameRequest(g, kind) ==
  LET oldBase == ParsePath(g.path).basePath
      base == ParsePath(g.newName).basePath
      name == ParsePath(g.newName).lastSegment
      newParent == IF base # oldBase THEN base ELSE <<>>
  IN IF ~g.folder.nil
       THEN MoveFolderRequest(g.folder.v.Path, newParent, name, kind)
       ELSE RenameFileRequest(g.file.v.ID, PathBase(g.newName), kind)

\* FileSystem.Rename from the answer to Find's request up to its request
\* (part_001:240-259)
RenameFind(t, kind) ==
  LET g == FindResponse(fs[t])
  IN /\ fs[t].pc = "find_resp"
     /\ fs[t].op = "Rename"
     /\ IF g.err # "nil"
          THEN fs' = [fs EXCEPT ![t] = g] /\ UNCHANGED remote
          ELSE /\ fs' = [fs EXCEPT ![t] = SendRequest(g, RenameRequest(g, kind))]
               /\ remote' = RemoteAfterSend(RenameRequest(g, kind))
     /\ UNCHANGED <<authVars, callVars, fileVars>>

\* client.MoveFiles (files.go:515-540) up to its request
MoveFiles(t, folder, fileIDs, kind) ==
  LET r == MoveFilesRequest(folder, fileIDs, kind)
  IN /\ \A u \in Threads : fs[u].pc \in {"idle", "done"}
     /\ fs' = [fs EXCEPT ![t] =
                 SendRequest([NoFsCall EXCEPT !.op = "MoveFiles", !.path = folder], r)]
     /\ remote' = RemoteAfterSend(r)
     /\ UNCHANGED <<authVars, callVars, fileVars>>

\* client.MoveFolder (files.go:647-676) up to its request: the folder keeps
\* the last segment of its path as its name
MoveFolder(t, folder, newParentFolder, kind) ==
  LET r == MoveFolderRequest(folder, newParentFolder,
                             ParsePath(folder).lastSegment, kind)
  IN /\ \A u \in Threads : fs[u].pc \in {"idle", "done"}
     /\ fs' = [fs EXCEPT ![t] =
                 SendRequest([NoFsCall EXCEPT !.op = "MoveFolder", !.path = folder,
                                              !.newName = newParentFolder], r)]
     /\ remote' = RemoteAfterSend(r)
     /\ UNCHANGED <<authVars, callVars, fileVars>>

\* Remove and Rename return what their request returned (part_001:89, 92,
\* 256, 258), and so do MoveFiles and MoveFolder (files.go:521-539, 657-675)
ChangeRecv(t) ==
  /\ fs[t].pc = "change_resp"
  /\ fs' = [fs EXCEPT ![t] = ChangeResponse(fs[t])]
  /\ UNCHANGED <<authVars, callVars, fileVars, remote>>

\* CraneFileInfo of a folder or a file (part_001:905-948): IsDir, and Mode
\* as its directory bit and its permission bits
CraneFileInfo(folder, file) ==
  [folder |-> folder, file |-> file,
   IsDir |-> ~folder.nil,
   ModeDir |-> ~folder.nil,
   Perm |-> IF ~folder.nil THEN "0755" ELSE "0644"]

\* FileSystem.Stat up to the request of Find (part_001:264-265)
Stat(t, name, kind) ==
  /\ \A u \in Threads : fs[u].pc \in {"idle", "done"}
  /\ fs' = [fs EXCEPT ![t] =
              LET g == FindRequest([NoFsCall EXCEPT !.op = "Stat", !.path = name,
                                                    !.was = Ptr(EntryAt(name))],
                                   name, kind)
              IN g]
  /\ UNCHANGED <<authVars, callVars, fileVars, remote>>

\* the error Stat returns for the error of Find (part_001:267-271)
StatErr(err) == IF err = "ErrNoFile" THEN "ErrNotExist" ELSE err

\* FileSystem.Stat from the answer to Find's request on (part_001:265-273)
StatFind(t) ==
  LET g == FindResponse(fs[t])
  IN /\ fs[t].pc = "find_resp"
     /\ fs[t].op = "Stat"
     /\ fs' = [fs EXCEPT ![t] =
                 IF g.err # "nil" THEN [g EXCEPT !.err = StatErr(g.err)]
                 ELSE [g EXCEPT !.info = Ptr(CraneFileInfo(g.folder, g.file))]]
     /\ UNCHANGED <<authVars, callVars, fileVars, remote>>

\* ------------------------------------------------------------ CraneFile
\* the open handles, one caller each
Handles == {"h1", "h2"}
\* the byte slices Write and WriteAt are called with, and the offsets
\* WriteAt is called with: the start of the scratch file and one byte in,
\* which is behind the end of an empty one
Payloads == { <<>>, <<"x">>, <<"y", "x">> }
Offsets == {0, 1}
\* the offsets ReadAt is called with: the start of the file, and one at or
\* behind the end of both files
ReadOffsets == {0, MaxData}
\* how a chunk request of an upload ends: GetToken fails and nothing is
\* sent, the transport fails, the status is not 200, the body of the final
\* answer does not decode, it decodes into a File without fields, or the
\* backend answers with the File it stored
UploadEnds == {"token", "transport", "status", "undecodable", "nofile", "ok"}
\* how a download request ends
DownloadEnds == {"token", "transport", "status", "ok"}

\* type File (files.go:679-686) with the fields a handle reads; the zero
\* value File{}
StoredFile(id, name, size) == [ID |-> id, Name |-> name, Size |-> size]
ZeroStoredFile == StoredFile(0, <<>>, 0)

\* the File of the contents the backend holds under the ID id
FileAt(id) == StoredFile(id, blobs[id].Name, Len(blobs[id].data))

\* CraneFile as FileSystem.Create and FileSystem.OpenFile build it
\* (part_001:67-72, 224-232), with the locals of the call that is made on it
NewHandle(name, file) ==
  [pc |-> "idle", op |-> "none", name |-> name, file |-> file,
   temporaryFile |-> NilPtr, readStream |-> NilPtr, readAtStream |-> NilPtr,
   p |-> <<>>, off |-> 0, n |-> 0, err |-> "none", sent |-> <<>>,
   producer |-> FALSE, created |-> 0, read |-> NilPtr,
   up |-> [chunk |-> 0, totalChunks |-> 0, remaining |-> 0, pos |-> 0,
           chunkSize |-> 0]]

\* a handle when a call on it begins
BeginCall(g, o, p, off) ==
  [g EXCEPT !.pc = "done", !.op = o, !.p = p, !.off = off, !.n = 0,
            !.err = "nil", !.producer = FALSE]

\* a call on a handle returns
Returns(g, n, err) == [g EXCEPT !.pc = "done", !.n = n, !.err = err]

\* CraneFile.ID (part_001:623-629): the empty ID, written 0, without a file
ID(g) == IF ~g.file.nil THEN g.file.v.ID ELSE 0

\* openTempFile (part_001:872-887): a scratch file under a fresh name
openTempFile(g, files) ==
  [h |-> [g EXCEPT !.temporaryFile =
                     Ptr([name |-> Len(files) + 1, closed |-> FALSE, at |-> 0]),
                   !.created = @ + 1],
   files |-> Append(files, [exists |-> TRUE, data |-> <<>>])]

\* the bytes of a scratch file after p was written at the position at: the
\* file is filled up with zero bytes up to at, p replaces what is there
WriteInto(data, at, p) ==
  LET padded == IF Len(data) < at
                  THEN data \o [i \in 1..(at - Len(data)) |-> "0"] ELSE data
  IN SubSeq(padded, 1, at) \o p \o SubSeq(padded, at + Len(p) + 1, Len(padded))

\* temporaryFile.Write and temporaryFile.WriteAt (part_001:897, 664) on the
\* handle g and the scratch files: a closed file takes no bytes
WriteFile(g, files, p, at) ==
  LET tmp == g.temporaryFile.v
  IN IF tmp.closed
       THEN [h |-> Returns(g, 0, "ErrFileClosed"), files |-> files]
       ELSE [h |-> Returns([g EXCEPT !.temporaryFile.v.at = at + Len(p)],
                           Len(p), "nil"),
             files |-> [files EXCEPT ![tmp.name].data = WriteInto(@, at, p)]]

\* the handle and the scratch files with the scratch file of Write and
\* WriteAt in place (part_001:890-895, 657-662)
WithTempFile(g, files) ==
  IF g.temporaryFile.nil THEN openTempFile(g, files)
  ELSE [h |-> g, files |-> files]

\* os.O_CREATE as Open tests it (part_001:617)
O_CREATE == 64

\* the flags Open is called with: O_RDONLY, O_RDWR, O_CREATE and
\* O_WRONLY|O_CREATE
OpenModes == {0, 2, O_CREATE, O_CREATE + 1}

\* mode&os.O_CREATE != 0 (part_001:617)
HasCreate(mode) == (mode \div O_CREATE) % 2 = 1

\* CraneFile.Open (part_001:615-621): with O_CREATE a scratch file under a
\* fresh name takes the place of the one the handle holds, which stays in
\* the scratch filesystem as it is; without it nothing happens.  A handle
\* is opened at most MaxScratch times with O_CREATE, and before it has sent
\* a request.
Open(h, mode) ==
  LET g == BeginCall(handle[h], "Open", <<>>, 0)
      r == IF HasCreate(mode) THEN openTempFile(g, tempFs)
           ELSE [h |-> g, files |-> tempFs]
  IN /\ handle[h].pc \in {"idle", "done"}
     /\ HasCreate(mode) =>
          (handle[h].created < MaxScratch /\ handle[h].sent = <<>>)
     /\ handle' = [handle EXCEPT ![h] = r.h]
     /\ tempFs' = r.files
     /\ UNCHANGED <<authVars, callVars, remote, fs, readCache, blobs>>

\* the bytes the scratch file of g would hold after p was written at at
Written(g, p, at) ==
  IF g.temporaryFile.nil THEN WriteInto(<<>>, at, p)
  ELSE WriteInto(tempFs[g.temporaryFile.v.name].data, at, p)

\* the bytes the scratch files hold together
RECURSIVE BytesIn(_)
BytesIn(files) ==
  IF files = <<>> THEN 0 ELSE Len(Head(files).data) + BytesIn(Tail(files))

\* the bytes the scratch files would hold together after p was written at
\* at into the scratch file of g
BytesAfter(g, p, at) ==
  BytesIn(tempFs) + Len(Written(g, p, at))
    - (IF g.temporaryFile.nil THEN 0 ELSE Len(tempFs[g.temporaryFile.v.name].data))

\* CraneFile.Write (part_001:889-898)
Write(h, p) ==
  LET g == BeginCall(handle[h], "Write", p, 0)
      w == WithTempFile(g, tempFs)
      r == WriteFile(w.h, w.files, p, w.h.temporaryFile.v.at)
  IN /\ handle[h].pc \in {"idle", "done"}
     /\ BytesAfter(g, p, IF g.temporaryFile.nil THEN 0
                         ELSE g.temporaryFile.v.at) <= MaxData
     /\ handle' = [handle EXCEPT ![h] = r.h]
     /\ tempFs' = r.files
     /\ UNCHANGED <<authVars, callVars, remote, fs, readCache, blobs>>

\* CraneFile.WriteAt (part_001:656-665)
WriteAt(h, p, off) ==
  LET g == BeginCall(handle[h], "WriteAt", p, off)
      w == WithTempFile(g, tempFs)
      r == WriteFile(w.h, w.files, p, off)
  IN /\ handle[h].pc \in {"idle", "done"}
     /\ BytesAfter(g, p, off) <= MaxData
     /\ handle' = [handle EXCEPT ![h] = r.h]
     /\ tempFs' = r.files
     /\ UNCHANGED <<authVars, callVars, remote, fs, readCache, blobs>>

\* the deferred clean-up of uploadFile (part_001:727-734): the scratch file
\* is removed from the scratch filesystem
Discard(files, name) == [files EXCEPT ![name] = [exists |-> FALSE, data |-> <<>>]]

\* uploadFile returns err (part_001:739, 745, 749, 755, 760) and its
\* deferred clean-up runs
UploadReturns(g, files, err) ==
  [h |-> Returns(g, 0, err), files |-> Discard(files, g.temporaryFile.v.name)]

\* the test of uploadFile for an empty scratch file (part_001:748)
IsEmpty_Never(size) == FALSE

IsEmpty(size) == size = 0

\* one turn of the loop of ChunkedUpload (files.go:193-206) for the handle
\* g, whose scratch file holds data: the chunk request goes out and ends as
\* kind says, or GetToken fails; files.go:238 when the loop is over.  The
\* backend stores the file when it accepts the final chunk.
SendChunk(g, files, data, kind) ==
  LET u == g.up
      chunkSize == IF u.remaining < maxChunkSize THEN u.remaining ELSE maxChunkSize
      final == u.chunk = u.totalChunks
      r == [kind |-> "upload-chunk", ends |-> kind, by |-> "Close",
            chunk |-> u.chunk, totalChunks |-> u.totalChunks,
            totalSize |-> Len(data), chunkSize |-> chunkSize,
            fileName |-> g.name,
            payload |-> SubSeq(data, u.pos + 1, u.pos + chunkSize),
            stored |-> IF final /\ kind = "ok" THEN Len(blobs) + 1 ELSE 0]
  IN IF u.chunk > u.totalChunks
       THEN UploadReturns(g, files, "no response from endpoint")
     ELSE IF kind = "token"
       THEN UploadReturns(g, files, "chunk upload failed")
     ELSE [h |-> [g EXCEPT !.pc = "upload_resp", !.sent = Append(@, r),
                           !.up.chunkSize = chunkSize],
           files |-> files]

\* the contents the backend holds after the handle sent a request
BlobsAfter(g, data) ==
  LET r == g.sent[Len(g.sent)]
  IN IF g.pc = "upload_resp" /\ r.stored # 0
       THEN Append(blobs, [Name |-> g.name, data |-> data])
       ELSE blobs

\* uploadFile (part_001:718-752) up to the first chunk request of
\* ChunkedUpload (files.go:145-206)
uploadFile(g0, files, kind) ==
  LET tmp == g0.temporaryFile.v
      g == [g0 EXCEPT !.temporaryFile.v.closed = TRUE]
      data == files[tmp.name].data
  IN IF ~files[tmp.name].exists
       THEN UploadReturns(g, files, "file does not exist")
     ELSE IF IsEmpty(Len(data))
       THEN UploadReturns(g, files, "ErrEmptyFile")
     ELSE SendChunk([g EXCEPT !.up = [chunk |-> 1,
                                      totalChunks |-> Ceil(Len(data), maxChunkSize),
                                      remaining |-> Len(data), pos |-> 0,
                                      chunkSize |-> 0]],
                    files, data, kind)

\* CraneFile.Close (part_001:706-716), for a handle with a scratch file up
\* to the first chunk request of its upload
Close(h, kind) ==
  LET g == BeginCall(handle[h], "Close", <<>>, 0)
  IN /\ handle[h].pc \in {"idle", "done"}
     /\ IF ~g.temporaryFile.nil
          THEN LET r == uploadFile(g, tempFs, kind)
               IN /\ handle' = [handle EXCEPT ![h] = r.h]
                  /\ tempFs' = r.files
                  /\ blobs' = BlobsAfter(r.h, tempFs[g.temporaryFile.v.name].data)
          ELSE /\ handle' = [handle EXCEPT ![h] =
                    IF ~g.readStream.nil
                      THEN [g EXCEPT !.readStream.v.closed = TRUE]
                    ELSE IF ~g.readAtStream.nil
                      THEN [g EXCEPT !.readAtStream.v.closed = TRUE]
                    ELSE g]
               /\ UNCHANGED <<tempFs, blobs>>
     /\ UNCHANGED <<authVars, callVars, remote, fs, readCache>>

\* the answer to a chunk request arrives (files.go:208-236), the next chunk
\* request goes out or ChunkedUpload returns, and then uploadFile
\* (part_001:754-760)
CloseRecv(h, kind) ==
  LET g == handle[h]
      r == g.sent[Len(g.sent)]
      data == tempFs[g.temporaryFile.v.name].data
      next == [g EXCEPT !.up.remaining = @ - g.up.chunkSize,
                        !.up.pos = @ + g.up.chunkSize,
                        !.up.chunk = @ + 1]
      out ==
        IF r.ends = "transport" THEN UploadReturns(g, tempFs, "chunk upload failed")
        ELSE IF r.ends = "status"
          THEN UploadReturns(g, tempFs, "chunk upload failed, status")
        ELSE IF g.up.chunk # g.up.totalChunks THEN SendChunk(next, tempFs, data, kind)
        ELSE IF r.ends = "undecodable" THEN UploadReturns(g, tempFs, "decode")
        ELSE UploadReturns([g EXCEPT !.file =
                               IF r.ends = "nofile" THEN Ptr(ZeroStoredFile)
                               ELSE Ptr(FileAt(r.stored))],
                           tempFs, "nil")
  IN /\ g.pc = "upload_resp"
     /\ handle' = [handle EXCEPT ![h] = out.h]
     /\ tempFs' = out.files
     /\ blobs' = BlobsAfter(out.h, data)
     /\ UNCHANGED <<authVars, callVars, remote, fs, readCache>>

\* ------------------------------------------------- CraneFile: reading
\* the download requests a handle sent
Downloads(sent) == SelectSeq(sent, LAMBDA r : r.kind = "download")

\* how the backend answers a download request: an ID it does not hold gives
\* a status other than 200
DownloadAnswer(r) ==
  IF r.ends = "ok" /\ r.id \notin 1..Len(blobs) THEN "status" ELSE r.ends

\* DownloadFile (files.go:355-367) for the handle g: the request goes out
\* and the handle waits at the position wait, or GetToken fails
openReadStream(g, wait, kind) ==
  IF kind = "token" THEN Returns(g, -1, "failed to retrieve token")
  ELSE [g EXCEPT !.pc = wait,
                 !.sent = Append(@, [kind |-> "download", ends |-> kind,
                                      by |-> g.op, id |-> g.file.v.ID])]

\* the body of the answer to a download request as a stream
StreamOf(id) == [data |-> blobs[id].data, pos |-> 0, closed |-> FALSE]

\* readStream.Read (part_001:781) with a slice of one byte
StreamRead(g) ==
  LET st == g.readStream.v
  IN IF st.closed THEN Returns(g, 0, "read on closed body")
     ELSE IF st.pos < Len(st.data)
       THEN Returns([g EXCEPT !.readStream.v.pos = @ + 1], 1, "nil")
     ELSE Returns(g, 0, "EOF")

\* the entry of the cache under key: its place among the entries, 0 if
\* there is none
EntryOf(entries, key) ==
  IF \E i \in 1..Len(entries) : entries[i].key = key
    THEN CHOOSE i \in 1..Len(entries) : entries[i].key = key
    ELSE 0

\* readCache.Get (part_001:801): a reader of the entry under key, and for a
\* key without an entry the new entry and its writer
Get(entries, key) ==
  LET at == EntryOf(entries, key)
      k == IF at = 0 THEN Len(entries) + 1 ELSE at
  IN [entries |-> IF at = 0 THEN Append(entries, [key |-> key, data |-> <<>>])
                  ELSE entries,
      read |-> Ptr([entry |-> k, pos |-> 0, closed |-> FALSE]),
      write |-> IF at = 0 THEN Ptr([entry |-> k]) ELSE NilPtr]

\* the test of openReadAtStream for the writer (part_001:807)
IsProducer_Always(write) == TRUE

IsProducer(write) == ~write.nil

\* readAtStream.Read (part_001:771) and readAtStream.ReadAt (part_001:653)
\* with a slice of one byte: the reader hands out a byte the entry holds
\* and waits for one it does not hold yet
CacheRead(g, entries) ==
  LET rd == g.readAtStream.v
      at == IF g.op = "ReadAt" THEN g.off ELSE rd.pos
  IN IF rd.closed THEN Returns(g, 0, "read on closed file")
     ELSE IF at < Len(entries[rd.entry].data)
       THEN Returns(IF g.op = "ReadAt" THEN g
                    ELSE [g EXCEPT !.readAtStream.v.pos = @ + 1], 1, "nil")
     ELSE [g EXCEPT !.pc = "cache_wait"]

\* ReadAt once the reader is open (part_001:649-653); without a file
\* c.file.Size is a nil pointer dereference
AfterOpen(g, entries) ==
  IF g.file.nil THEN Returns(g, -1, "panic: nil pointer dereference")
  ELSE IF g.off >= g.file.v.Size THEN Returns(g, 0, "EOF")
  ELSE CacheRead(g, entries)

\* CraneFile.Read (part_001:763-782) up to its download request
Read(h, kind) ==
  LET g == BeginCall(handle[h], "Read", <<"?">>, 0)
  IN /\ handle[h].pc \in {"idle", "done"}
     /\ (~g.file.nil /\ g.readAtStream.nil /\ g.readStream.nil) =>
          Len(Downloads(g.sent)) < MaxDownloads
     /\ handle' = [handle EXCEPT ![h] =
          IF g.file.nil THEN Returns(g, -1, "ErrUnexpectedEOF")
          ELSE IF ~g.readAtStream.nil THEN CacheRead(g, readCache.v)
          ELSE IF g.readStream.nil THEN openReadStream(g, "read_resp", kind)
          ELSE StreamRead(g)]
     /\ UNCHANGED <<authVars, callVars, remote, fs, tempFs, readCache, blobs>>

\* the answer to the download request of Read arrives (files.go:358-366,
\* part_001:787-793, 781)
ReadRecv(h) ==
  LET g == handle[h]
      r == g.sent[Len(g.sent)]
  IN /\ g.pc = "read_resp"
     /\ handle' = [handle EXCEPT ![h] =
          IF DownloadAnswer(r) = "transport" THEN Returns(g, -1, "transport")
          ELSE IF DownloadAnswer(r) = "status" THEN Returns(g, -1, "ErrUnexpectedStatus")
          ELSE StreamRead([g EXCEPT !.readStream = Ptr(StreamOf(r.id))])]
     /\ UNCHANGED <<authVars, callVars, remote, fs, tempFs, readCache, blobs>>

\* CraneFile.ReadAt (part_001:631-654) with openReadAtStream
\* (part_001:796-811) up to its download request
ReadAt(h, off, kind) ==
  LET g == BeginCall(handle[h], "ReadAt", <<"?">>, off)
      got == Get(readCache.v, ID(g))
  IN /\ handle[h].pc \in {"idle", "done"}
     /\ IF readCache.nil
          THEN /\ handle' = [handle EXCEPT ![h] = Returns(g, -1, "ErrNotSupported")]
               /\ UNCHANGED readCache
        ELSE IF ~g.readAtStream.nil
          THEN /\ handle' = [handle EXCEPT ![h] = AfterOpen(g, readCache.v)]
               /\ UNCHANGED readCache
        ELSE /\ readCache' = Ptr(got.entries)
             /\ handle' = [handle EXCEPT ![h] =
                  IF IsProducer(got.write)
                    THEN IF g.file.nil
                           THEN Returns(g, -1, "panic: nil pointer dereference")
                         ELSE openReadStream([g EXCEPT !.producer = TRUE,
                                                       !.read = got.read],
                                             "readat_resp", kind)
                    ELSE AfterOpen([g EXCEPT !.readAtStream = got.read], got.entries)]
     /\ UNCHANGED <<authVars, callVars, remote, fs, tempFs, blobs>>

\* the answer to the download request of openReadAtStream arrives
\* (part_001:809-811, 831): the deferred copy is still to run
ReadAtRecv(h) ==
  LET g == handle[h]
      r == g.sent[Len(g.sent)]
  IN /\ g.pc = "readat_resp"
     /\ handle' = [handle EXCEPT ![h] =
          IF DownloadAnswer(r) = "transport" THEN Returns(g, -1, "transport")
          ELSE IF DownloadAnswer(r) = "status" THEN Returns(g, -1, "ErrUnexpectedStatus")
          ELSE [g EXCEPT !.readStream = Ptr(StreamOf(r.id)),
                         !.readAtStream = g.read,
                         !.pc = "copying"]]
     /\ UNCHANGED <<authVars, callVars, remote, fs, tempFs, readCache, blobs>>

\* one turn of the loop of io.Copy in the deferred function of
\* openReadAtStream (part_001:816): the n bytes the body hands out next go
\* into the entry, where every reader of the entry finds them
ReadAtCopy(h, n) ==
  LET g == handle[h]
      st == g.readStream.v
      k == g.readAtStream.v.entry
  IN /\ g.pc = "copying"
     /\ n \in 1..(Len(st.data) - st.pos)
     /\ readCache' = Ptr([readCache.v EXCEPT ![k].data =
                            @ \o SubSeq(st.data, st.pos + 1, st.pos + n)])
     /\ handle' = [handle EXCEPT ![h].readStream.v.pos = @ + n]
     /\ UNCHANGED <<authVars, callVars, remote, fs, tempFs, blobs>>

\* io.Copy returns (part_001:816-827), at the end of the body without an
\* error and before it with the error of the body, which is logged and
\* not handed on; the deferred Close of the stream runs (part_001:814),
\* openReadAtStream returns nil and ReadAt goes on (part_001:649-653).  The
\* writer of the entry is left open.
ReadAtCopyEnd(h, fails) ==
  LET g == handle[h]
      st == g.readStream.v
  IN /\ g.pc = "copying"
     /\ fails <=> st.pos < Len(st.data)
     /\ handle' = [handle EXCEPT ![h] =
          AfterOpen([g EXCEPT !.readStream.v.closed = TRUE], readCache.v)]
     /\ UNCHANGED <<authVars, callVars, remote, fs, tempFs, readCache, blobs>>

\* a reader that waited for a byte of its entry gets it
CacheWait(h) ==
  LET g == handle[h]
      next == CacheRead([g EXCEPT !.pc = "done"], readCache.v)
  IN /\ g.pc = "cache_wait"
     /\ next.pc = "done"
     /\ handle' = [handle EXCEPT ![h] = next]
     /\ UNCHANGED <<authVars, callVars, remote, fs, tempFs, readCache, blobs>>

\* a caller parses a path
ParsePathCall(t, path) ==
  /\ fs' = [fs EXCEPT ![t] = [NoFsCall EXCEPT !.pc = "done", !.op = "ParsePath",
                                             !.path = path,
                                             !.base = ParsePath(path).basePath,
                                             !.name = ParsePath(path).lastSegment]]
  /\ UNCHANGED <<authVars, callVars, fileVars, remote>>

vars == <<now, useStore, lastResponse, store, mu, nextId,
          pc, op, arg, response, req, ret, callSent, up, remote, fs,
          handle, tempFs, readCache, blobs>>

\* ---------------------------------------------- the manager and its callers
Next ==
  \/ Tick
  \/ \E t \in Threads :
       \/ \E u \in UsernamesOf(useStore, t) : Authenticate(t, u)
       \/ \E ans \in AuthAnswers : AuthenticateRecv(t, ans)
       \/ RefreshToken(t)
       \/ RefreshTokenSend(t)
       \/ \E ans \in AuthAnswers : RefreshTokenRecv(t, ans)
       \/ \E c \in CtxValuesOf(useStore, t) : GetToken(t, c)
       \/ GetTokenRead(t)
       \/ GetTokenCheck(t)

Spec == Init /\ [][Next]_vars

\* ------------------------------- uploads through an authenticated manager
\* the state after NewAuthManager and one Authenticate of the default user
InitUpload ==
  /\ now = 0
  /\ useStore \in BOOLEAN
  /\ \E body \in BackendBodies :
       LET r == DecodedResponse(1, defaultUsername, body, 0) IN
         /\ lastResponse = IF useStore THEN NilResponse ELSE r
         /\ store = [u \in Usernames |->
                       IF useStore /\ u = defaultUsername THEN r ELSE NilResponse]
  /\ mu = "free"
  /\ nextId = 2
  /\ pc = [t \in Threads |-> "idle"]
  /\ op = [t \in Threads |-> "none"]
  /\ arg = [t \in Threads |-> ""]
  /\ response = [t \in Threads |-> NilResponse]
  /\ req = [t \in Threads |-> NoReq]
  /\ ret = [t \in Threads |-> NoRet]
  /\ callSent = [t \in Threads |-> 0]
  /\ up = [t \in Threads |-> NoUpload]
  /\ remote = EmptyRoot
  /\ fs = [t \in Threads |-> NoFsCall]
  /\ NoFiles

\* the first caller uploads, the second one refreshes the session meanwhile
NextUpload ==
  \/ Tick
  \/ \E size \in FileSizes : \E len \in StreamLens(size) :
       ChunkedUpload("t1", CtxNil, <<Slash, "a">>, size, len)
  \/ \E opts \in CallerOpts : DownloadFile("t1", CtxNil, opts)
  \/ \E ans \in DownloadAnswers : DownloadRecv("t1", ans)
  \/ RefreshToken("t2")
  \/ \E t \in Threads :
       \/ GetTokenRead(t)
       \/ GetTokenCheck(t)
       \/ RefreshTokenSend(t)
       \/ \E ans \in UploadAuthAnswers : RefreshTokenRecv(t, ans)
       \/ \E ans \in UploadAnswers : UploadRecv(t, ans)

SpecUpload == InitUpload /\ [][NextUpload]_vars

\* ------------------------------------------- two callers that upload at once
\* the manager holds a credential that needs no refresh
InitUploads ==
  /\ InitUpload
  /\ useStore = FALSE
  /\ lastResponse.Token # 0
  /\ lastResponse.TokenExpiration >= Grace
  /\ lastResponse.RefreshTokenExpiration >= Grace

NextUploads ==
  \E t \in Threads :
    \/ \E filePath \in UploadPaths : \E size \in UploadSizes :
         ChunkedUpload(t, CtxNil, filePath, size, size)
    \/ GetTokenRead(t)
    \/ GetTokenCheck(t)
    \/ \E ans \in UploadAnswers : UploadRecv(t, ans)

SpecUploads == InitUploads /\ [][NextUploads]_vars

\* ------------------------------------------------- paths, parsed one by one
InitParsePath ==
  /\ Init
  /\ useStore = FALSE

NextParsePath == \E path \in Paths : ParsePathCall("t1", path)

SpecParsePath == InitParsePath /\ [][NextParsePath]_vars

\* -------------------------------------------- lookups in a tree of folders
InitFind ==
  /\ now = 0
  /\ useStore = FALSE
  /\ lastResponse = NilResponse
  /\ store = [u \in Usernames |-> NilResponse]
  /\ mu = "free"
  /\ nextId = 1
  /\ pc = [t \in Threads |-> "idle"]
  /\ op = [t \in Threads |-> "none"]
  /\ arg = [t \in Threads |-> ""]
  /\ response = [t \in Threads |-> NilResponse]
  /\ req = [t \in Threads |-> NoReq]
  /\ ret = [t \in Threads |-> NoRet]
  /\ callSent = [t \in Threads |-> 0]
  /\ up = [t \in Threads |-> NoUpload]
  /\ remote \in RemoteTrees
  /\ fs = [t \in Threads |-> NoFsCall]
  /\ NoFiles

NextFind ==
  \/ \E file \in FindPaths : \E kind \in FsAnswerKinds : Find("t1", file, kind)
  \/ FindRecv("t1")

SpecFind == InitFind /\ [][NextFind]_vars

\* ------------------------------------------- one caller that makes folders
\* the caller starts on a tree whose root holds one folder at most, and
\* that folder no folders: the deeper folders are the ones Mkdir makes
InitMkdir ==
  /\ InitFind
  /\ Len(remote.Subfolders) <= 1
  /\ \A i \in 1..Len(remote.Subfolders) : remote.Subfolders[i].Subfolders = <<>>

NextMkdir ==
  \/ \E name \in MkdirPaths : \E kind \in FsAnswerKinds : Mkdir("t1", name, kind)
  \/ \E kind \in FsAnswerKinds : MkdirFind("t1", kind)
  \/ MkdirCreate("t1")

SpecMkdir == InitMkdir /\ [][NextMkdir]_vars

\* ------------------------------------- two callers that make folders at once
\* the callers start on an account without folders and files
InitMkdirs ==
  /\ InitFind
  /\ remote = EmptyRoot

NextMkdirs ==
  \E t \in Threads :
    \/ \E name \in ConcurrentMkdirPaths : \E kind \in FsAnswerKinds : Mkdir(t, name, kind)
    \/ \E kind \in FsAnswerKinds : MkdirFind(t, kind)
    \/ MkdirCreate(t)

SpecMkdirs == InitMkdirs /\ [][NextMkdirs]_vars

\* ------------------------------------ one caller that makes chains of folders
NextMkdirAll ==
  \/ \E path \in MkdirAllPaths : \E kind \in FsAnswerKinds : MkdirAll("t1", path, kind)
  \/ \E kind \in FsAnswerKinds : MkdirAllFind("t1", kind)
  \/ \E kind \in FsAnswerKinds : MkdirAllFolders("t1", kind)
  \/ \E kind \in FsAnswerKinds : MkdirAllCreate("t1", kind)

SpecMkdirAll == InitMkdir /\ [][NextMkdirAll]_vars

\* ------------------------------------ one caller that removes and renames
\* the caller starts on a tree of two levels of folders below the root,
\* with files in the root and in the folder a of the root at most
InitEntries ==
  /\ InitFind
  /\ \A i \in 1..Len(remote.Subfolders) :
       /\ remote.Subfolders[i].Name = <<"b">> => remote.Subfolders[i].Files = <<>>
       /\ \A j \in 1..Len(remote.Subfolders[i].Subfolders) :
            /\ remote.Subfolders[i].Subfolders[j].Subfolders = <<>>
            /\ remote.Subfolders[i].Subfolders[j].Files = <<>>

NextEntries ==
  \/ \E name \in EntryPaths : \E kind \in FsAnswerKinds : Remove("t1", name, kind)
  \/ \E kind \in FsAnswerKinds : RemoveFind("t1", kind)
  \/ \E pair \in RenamePairs : \E kind \in FsAnswerKinds :
       Rename("t1", pair[1], pair[2], kind)
  \/ \E kind \in FsAnswerKinds : RenameFind("t1", kind)
  \/ ChangeRecv("t1")

SpecEntries == InitEntries /\ [][NextEntries]_vars

\* --------------------------------------- one caller that renames and moves
\* the caller renames through the filesystem and moves files and folders
\* through the client, on the trees of InitEntries
NextMoves ==
  \/ \E pair \in RenamePairs : \E kind \in FsAnswerKinds :
       Rename("t1", pair[1], pair[2], kind)
  \/ \E kind \in FsAnswerKinds : RenameFind("t1", kind)
  \/ \E call \in MoveFilesCalls : \E kind \in FsAnswerKinds :
       MoveFiles("t1", call[1], call[2], kind)
  \/ \E call \in MoveFolderCalls : \E kind \in FsAnswerKinds :
       MoveFolder("t1", call[1], call[2], kind)
  \/ ChangeRecv("t1")

SpecMoves == InitEntries /\ [][NextMoves]_vars

\* --------------------------------------------------- callers with handles
\* FileSystem after New with the first caller's state: the backend holds
\* two files, no scratch file exists, no handle is open
InitFileSystem ==
  /\ now = 0
  /\ useStore = FALSE
  /\ lastResponse = NilResponse
  /\ store = [u \in Usernames |-> NilResponse]
  /\ mu = "free"
  /\ nextId = 1
  /\ pc = [t \in Threads |-> "idle"]
  /\ op = [t \in Threads |-> "none"]
  /\ arg = [t \in Threads |-> ""]
  /\ response = [t \in Threads |-> NilResponse]
  /\ req = [t \in Threads |-> NoReq]
  /\ ret = [t \in Threads |-> NoRet]
  /\ callSent = [t \in Threads |-> 0]
  /\ up = [t \in Threads |-> NoUpload]
  /\ remote = EmptyRoot
  /\ fs = [t \in Threads |-> NoFsCall]
  /\ blobs = << [Name |-> <<"a">>, data |-> <<"x", "y">>],
                [Name |-> <<"b">>, data |-> <<"y">>] >>
  /\ tempFs = <<>>

\* the handles OpenFile gives for the files the backend holds
\* (part_001:224-232), and the one Create gives, or OpenFile for a path that
\* names nothing (part_001:67-72)
Opened == { NewHandle(blobs[id].Name, Ptr(FileAt(id))) : id \in 1..Len(blobs) }
Created == NewHandle(<<"a">>, NilPtr)

\* one handle that is opened, written and closed
InitWriter ==
  /\ InitFileSystem
  /\ readCache = NilPtr
  /\ handle \in [{"h1"} -> Opened \cup {Created}]

NextWriter ==
  \/ \E p \in Payloads : Write("h1", p)
  \/ \E p \in Payloads : \E off \in Offsets : WriteAt("h1", p, off)
  \/ \E kind \in UploadEnds : Close("h1", kind)
  \/ \E kind \in UploadEnds : CloseRecv("h1", kind)
  \/ \E mode \in OpenModes : Open("h1", mode)

SpecWriter == InitWriter /\ [][NextWriter]_vars

\* two handles that are read and closed: the first one is open on the
\* first file and read in both ways, the second one is open on either file
\* and read at offsets; neither has a scratch file, so that Close sends no
\* chunk request
InitReaders ==
  /\ InitFileSystem
  /\ readCache = Ptr(<<>>)
  /\ handle \in { hs \in [Handles -> Opened] : hs["h1"].file.v.ID = 1 }

NextReaders ==
  \/ \E kind \in DownloadEnds : Read("h1", kind)
  \/ ReadRecv("h1")
  \/ \E h \in Handles :
       \/ \E off \in ReadOffsets : \E kind \in DownloadEnds : ReadAt(h, off, kind)
       \/ ReadAtRecv(h)
       \/ \E n \in 1..MaxData : ReadAtCopy(h, n)
       \/ \E fails \in BOOLEAN : ReadAtCopyEnd(h, fails)
       \/ CacheWait(h)
       \/ Close(h, "ok")

SpecReaders == InitReaders /\ [][NextReaders]_vars

\* ------------------------------------------------ one caller that looks up
NextStat ==
  \/ \E name \in EntryPaths : \E kind \in FsAnswerKinds : Stat("t1", name, kind)
  \/ StatFind("t1")

SpecStat == InitFind /\ [][NextStat]_vars

\* ================================================================= claims
Done(t, o) == pc[t] = "done" /\ op[t] = o

\* the credential GetToken works on: its local while the call runs, the
\* recorded one after it returned
TriggerOf(t) == IF pc[t] = "done" THEN ret[t].trigger ELSE response[t].RefreshToken

\* the credential cached for a user key
Cached(u) == IF useStore THEN store[u] ELSE lastResponse
CachedNext(u) == IF useStore THEN store'[u] ELSE lastResponse'

\* C1: whenever GetToken returns a token without error, that token is still
\* valid for at least the 5 minutes of the grace window at the moment of the
\* return, also when the call refreshed before returning.
C1_TokenValidFiveMinutes ==
  \A t \in Threads :
    (Done(t, "GetToken") /\ ret[t].err = "nil") => ret[t].left >= Grace

\* C2: concurrent GetToken calls that read the same cached credential inside
\* the grace window send at most one refresh request between them (a second
\* request after a refresh that failed is not held against the claim).  Two
\* calls that worked on the same credential and of which none saw its
\* refresh fail did overlap: a refresh that succeeds replaces the credential,
\* so the other call had read it before.
C2_OneRefreshPerWindow ==
  \A t, u \in Threads :
    (/\ t # u
     /\ op[t] = "GetToken" /\ op[u] = "GetToken"
     /\ TriggerOf(t) # 0
     /\ TriggerOf(t) = TriggerOf(u)
     /\ \A v \in {t, u} : pc[v] = "done" => ret[v].answer = "ok")
    => callSent[t] + callSent[u] <= 1

\* C3: a GetToken call that finds its credential inside the grace window
\* (refresh token still valid) sends exactly one refresh request, answered
\* before the call returns; a call that finds 5 minutes or more remaining
\* sends none.
C3_ExactlyOneRefresh ==
  \A t \in Threads :
    /\ (Done(t, "GetToken") /\ ret[t].grace)
         => (callSent[t] = 1 /\ ret[t].answer # "none")
    /\ (Done(t, "GetToken") /\ ~ret[t].grace) => callSent[t] = 0
    /\ (op[t] = "GetToken" /\ pc[t] \in {"rt_lock", "rt_recv"})
         => response[t].TokenExpiration < now + Grace

\* C4: GetToken fails with NoToken when its credential is nil or has an empty
\* access token, and with RefreshExpired when the refresh token's expiry is
\* before now, also when the access token is inside the grace window; either
\* way the step sends no request and leaves the cached credentials alone.
C4_NoTokenRefreshExpired ==
  [][ \A t \in Threads :
        (pc[t] = "gt_check" /\ pc'[t] # "gt_check" /\ op[t] = "GetToken") =>
          LET r == response[t]
              noToken == r.isNil \/ r.Token = 0
              expired == ~noToken /\ r.RefreshTokenExpiration < now
          IN /\ noToken <=> (pc'[t] = "done" /\ ret'[t].err = "ErrNoToken")
             /\ expired <=> (pc'[t] = "done" /\ ret'[t].err = "ErrExpiredRefreshToken")
             /\ (noToken \/ expired) =>
                  /\ callSent'[t] = 0
                  /\ req'[t] = NoReq
                  /\ ret'[t].tok = 0
                  /\ UNCHANGED <<lastResponse, store, nextId, mu>> ]_vars

\* C4 witness: a GetToken call returned RefreshExpired although the cached
\* access token is inside the grace window, and another one returned NoToken
C4_Witness ==
  \E t, u \in Threads :
    /\ Done(t, "GetToken") /\ ret[t].err = "ErrExpiredRefreshToken"
    /\ ~lastResponse.isNil /\ lastResponse.RefreshToken = ret[t].trigger
    /\ lastResponse.TokenExpiration < now + Grace
    /\ Done(u, "GetToken") /\ ret[u].err = "ErrNoToken"

\* C5: once the cached credential's refresh token has expired, only a
\* successful Authenticate brings back a credential with which GetToken
\* returns a token.
Usable(r, t0) == ~r.isNil /\ r.Token # 0 /\ r.RefreshTokenExpiration >= t0
AuthenticateSucceeds ==
  \E t \in Threads : pc[t] = "au_recv" /\ pc'[t] = "done" /\ ret'[t].err = "nil"
C5_RefreshExpiredTerminal ==
  [][ \A u \in Usernames :
        (/\ ~Cached(u).isNil
         /\ Cached(u).RefreshTokenExpiration < now
         /\ ~AuthenticateSucceeds)
        => ~Usable(CachedNext(u), now') ]_vars

\* C6: an Authenticate answered with a non-success status fails with
\* ErrAuthFailed and leaves the stored credentials unchanged; only a
\* successful Authenticate replaces a stored credential.
C6_AuthFailedKeepsCredential ==
  [][ \A t \in Threads :
        (pc[t] = "au_recv" /\ pc'[t] = "done") =>
          /\ ret'[t].answer = "status" => ret'[t].err = "ErrAuthFailed"
          /\ ret'[t].err # "nil" => UNCHANGED <<lastResponse, store>> ]_vars

\* C7: when the refresh request of a GetToken call fails (transport error,
\* non-success status, undecodable body), that call returns an error and no
\* token, the cached credentials are unchanged, and the call has sent this
\* one refresh request only.
C7_FailedRefreshSurfaces ==
  [][ \A t \in Threads :
        (pc[t] = "rt_recv" /\ pc'[t] # "rt_recv" /\ op[t] = "GetToken") =>
          (ret'[t].answer # "ok" =>
             /\ pc'[t] = "done"
             /\ ret'[t].err = "failed to refresh token"
             /\ ret'[t].tok = 0
             /\ callSent'[t] = 1
             /\ req'[t] = NoReq
             /\ UNCHANGED <<lastResponse, store, nextId>>) ]_vars

\* C7 witness: a GetToken call returned the refresh failure after a
\* non-success status, having sent one request
C7_Witness ==
  \E t \in Threads :
    /\ Done(t, "GetToken") /\ ret[t].err = "failed to refresh token"
    /\ ret[t].answer = "status" /\ callSent[t] = 1
    /\ ~lastResponse.isNil /\ lastResponse.RefreshToken = ret[t].trigger

\* C8: with a store, GetToken for user U works on U's stored credential only:
\* inside the grace window it sends one refresh request carrying U's refresh
\* token, and it returns a token of U.
UserOf(t) == IF arg[t] = CtxNil THEN defaultUsername ELSE arg[t]
C8_PerUserCredential ==
  [][ \A t \in Threads :
        (useStore /\ op[t] = "GetToken" /\ pc'[t] # pc[t]) =>
          /\ pc[t] = "gt_read" /\ pc'[t] = "gt_check"
               => response'[t] = store[UserOf(t)]
          /\ pc[t] = "rt_lock"
               => (pc'[t] = "rt_recv" /\ req'[t].token = response[t].RefreshToken)
          /\ pc'[t] = "done" /\ ret'[t].err = "nil"
               => ret'[t].tok = response[t].Token
          /\ \A u \in Usernames \ {UserOf(t)} : store'[u] = store[u] ]_vars

\* ------------------------------------------------------------ ChunkedUpload
RECURSIVE SumDeclared(_)
SumDeclared(sent) ==
  IF sent = <<>> THEN 0 ELSE Head(sent).declared + SumDeclared(Tail(sent))

\* C9: for totalSize > 0 the declared chunk count k is ceil(totalSize /
\* maxChunkSize); every chunk before the last declares maxChunkSize, the last
\* one totalSize mod maxChunkSize (a full chunk for an exact multiple), and
\* the declared lengths of all k chunks sum to totalSize.
C9_ChunkArithmetic ==
  \A t \in Threads :
    (op[t] = "ChunkedUpload" /\ up[t].fileSize > 0) =>
      LET size == up[t].fileSize
          k == up[t].totalChunks
          sent == up[t].sent
          last == IF size % maxChunkSize = 0 THEN maxChunkSize
                  ELSE size % maxChunkSize
      IN /\ (k - 1) * maxChunkSize < size /\ size <= k * maxChunkSize
         /\ \A i \in 1..Len(sent) :
              /\ sent[i].totalChunks = k
              /\ sent[i].totalSize = size
              /\ sent[i].chunk < k => sent[i].declared = maxChunkSize
              /\ sent[i].chunk = k => sent[i].declared = last
         /\ Len(sent) = k => SumDeclared(sent) = size
         /\ (pc[t] = "done" /\ ret[t].err = "nil") => Len(sent) = k

\* C9 witness: the upload of the example, 20 MiB in chunks of 15 MiB and
\* 5 MiB, has returned its File
C9_Witness ==
  \E t \in Threads :
    /\ Done(t, "ChunkedUpload") /\ ret[t].err = "nil"
    /\ up[t].fileSize = 20 * MiB
    /\ Len(up[t].sent) = 2
    /\ up[t].sent[1].declared = 15 * MiB
    /\ up[t].sent[2].declared = 5 * MiB

\* C10: the chunk numbers of the requests of one ChunkedUpload are 1, 2, ...
\* in this order, without gap or repeat, up to totalChunks on success; a
\* chunk is sent only when every earlier one has been answered, so at most
\* one chunk request is in flight.
C10_SequentialChunks ==
  \A t \in Threads :
    op[t] = "ChunkedUpload" =>
      LET sent == up[t].sent IN
        /\ \A i \in 1..Len(sent) : sent[i].chunk = i
        /\ Len(sent) <= up[t].totalChunks \/ Len(sent) = 0
        /\ (pc[t] = "done" /\ ret[t].err = "nil") => Len(sent) = up[t].totalChunks
        /\ Len(sent) - up[t].answered = (IF pc[t] = "up_recv" THEN 1 ELSE 0)
        /\ (pc[t] = "up_recv") <=> (req[t].kind = "upload")

\* C10 witness: an upload of two chunks has the second chunk in flight after
\* the first one was answered
C10_Witness ==
  \E t \in Threads :
    /\ op[t] = "ChunkedUpload" /\ pc[t] = "up_recv"
    /\ Len(up[t].sent) = 2 /\ up[t].answered = 1

\* C11: once the request for chunk n has failed (transport error or a status
\* other than 200) the upload is over: it has returned an error and no File,
\* and the requests it sent are the chunks 1..n, each one once.
C11_FailedChunkAborts ==
  \A t \in Threads :
    (/\ op[t] = "ChunkedUpload"
     /\ up[t].answered >= 1
     /\ up[t].last.status # StatusOK)
    => /\ pc[t] = "done"
       /\ ret[t].err \notin {"nil", "none"}
       /\ ret[t].file = NilFile
       /\ Len(up[t].sent) = up[t].answered
       /\ \A i \in 1..Len(up[t].sent) : up[t].sent[i].chunk = i

\* C11 witness: the second chunk of an upload was answered with status 500
\* after the first one had been accepted
C11_Witness ==
  \E t \in Threads :
    /\ Done(t, "ChunkedUpload")
    /\ up[t].last.status = 500
    /\ up[t].answered = 2 /\ up[t].accepted = 1
    /\ Len(up[t].sent) = 2

\* C12: an upload that returned a File has sent every chunk 1..totalChunks,
\* had every one answered with status 200, and returns the File of the
\* answer to the final chunk; before the final answer there is no File.
C12_FileFromFinalChunk ==
  \A t \in Threads :
    op[t] = "ChunkedUpload" =>
      /\ (pc[t] = "done" /\ ret[t].file # NilFile) =>
            /\ ret[t].err = "nil"
            /\ up[t].totalChunks >= 1
            /\ Len(up[t].sent) = up[t].totalChunks
            /\ \A i \in 1..Len(up[t].sent) : up[t].sent[i].chunk = i
            /\ up[t].answered = up[t].totalChunks
            /\ up[t].accepted = up[t].totalChunks
            /\ up[t].last.status = StatusOK
            /\ ret[t].file = up[t].last.file
      /\ up[t].answered < up[t].totalChunks => ret[t].file = NilFile

\* C12 witness: an upload of two chunks returned the File of the second
\* answer
C12_Witness ==
  \E t \in Threads :
    /\ Done(t, "ChunkedUpload") /\ ret[t].err = "nil" /\ ret[t].file = 1
    /\ up[t].totalChunks = 2 /\ up[t].accepted = 2
    /\ up[t].last.file = 1

\* C13: an upload that returns without error returns a finished File
\* record: neither a nil File nor the zero value.
C13_NoSuccessWithoutFile ==
  \A t \in Threads :
    (Done(t, "ChunkedUpload") /\ ret[t].err = "nil")
      => ret[t].file \notin {NilFile, ZeroFile}

\* the payloads of the chunks in sent are the bytes of the input from
\* position pos on, in this order and without gap or overlap, up to the end
RECURSIVE Contiguous(_, _, _)
Contiguous(sent, pos, end) ==
  IF sent = <<>> THEN pos = end
  ELSE /\ Head(sent).offset = pos
       /\ Contiguous(Tail(sent), pos + Head(sent).payload, end)

\* C14: when the input stream holds exactly totalSize bytes, the payloads of
\* a successful upload, put together in the order of the chunk numbers, are
\* the input from its first byte to its last.
C14_PayloadsAreTheInput ==
  \A t \in Threads :
    (/\ Done(t, "ChunkedUpload") /\ ret[t].err = "nil"
     /\ up[t].inPos + up[t].inLeft = up[t].fileSize)
    => /\ \A i \in 1..Len(up[t].sent) : up[t].sent[i].chunk = i
       /\ Contiguous(up[t].sent, 0, up[t].fileSize)

\* C14 witness: the 20 MiB of the example went out as the bytes from 0 and
\* the bytes from 15 MiB
C14_Witness ==
  \E t \in Threads :
    /\ Done(t, "ChunkedUpload") /\ ret[t].err = "nil"
    /\ up[t].fileSize = 20 * MiB /\ up[t].inLeft = 0 /\ up[t].inPos = 20 * MiB
    /\ Len(up[t].sent) = 2
    /\ up[t].sent[1].offset = 0 /\ up[t].sent[1].payload = 15 * MiB
    /\ up[t].sent[2].offset = 15 * MiB /\ up[t].sent[2].payload = 5 * MiB

\* C15: a client operation sends a request only in the step in which its own
\* GetToken call returns a token, one call per request, and the request's
\* Authorization header is the bearer of that token whatever options the
\* caller gave; when the GetToken call returns an error the operation
\* returns an error and no request goes out.
C15_BearerOnEveryRequest ==
  [][ \A t \in Threads :
        (op[t] \in ClientOps /\ op'[t] = op[t]) =>
          /\ Len(up'[t].sent) = Len(up[t].sent) + 1 =>
                /\ pc[t] \in {"gt_check", "rt_recv"}
                /\ response[t].Token # 0
                /\ up'[t].sent[Len(up'[t].sent)].header["Authorization"]
                     = Bearer(response[t].Token)
                /\ up[t].tokenCalls = Len(up'[t].sent)
          /\ Len(up'[t].sent) # Len(up[t].sent) + 1 =>
                (up'[t].sent = up[t].sent \/ up'[t].sent = <<>>)
          /\ (pc[t] \in {"gt_read", "gt_check", "rt_recv"} /\ pc'[t] = "done") =>
                /\ ret'[t].err = "failed to retrieve token"
                /\ ret'[t].file = NilFile
                /\ up'[t].sent = up[t].sent
                /\ req'[t] = NoReq ]_vars

\* C15 witness: a download whose caller tried to set the Authorization
\* header went out with the bearer token of the manager and the caller's range
C15_Witness ==
  \E t \in Threads :
    /\ op[t] = "DownloadFile" /\ Len(up[t].sent) = 1
    /\ \E i \in 1..Len(up[t].opts) : up[t].opts[i].key = "Authorization"
    /\ up[t].sent[1].header["Authorization"][1] = "Bearer"
    /\ up[t].sent[1].header["Authorization"][2] \in 1..MaxIssued
    /\ up[t].sent[1].header["Range"] = <<"bytes", 0>>

\* ---------------------------------------------------------------- ParsePath
HasSlash(s) == \E i \in 1..Len(s) : s[i] = Slash

\* tr is p without the slashes at its two ends
IsTrimOf(tr, p) ==
  \E i, j \in 0..Len(p) :
    /\ i + j <= Len(p)
    /\ tr = SubSeq(p, i + 1, Len(p) - j)
    /\ \A k \in 1..i : p[k] = Slash
    /\ \A k \in (Len(p) - j + 1)..Len(p) : p[k] = Slash
    /\ tr = <<>> \/ (tr[1] # Slash /\ tr[Len(tr)] # Slash)

\* C16: ParsePath(path) works on the path without the slashes at its ends:
\* when what is left holds no slash (one segment, or nothing) the result is
\* ("/", what is left); otherwise the leaf is what follows the last slash
\* and the parent is "/" with what precedes that slash.  A slash added at
\* the end of the path does not change the result.
C16_ParsePath ==
  \A t \in Threads :
    fs[t].op = "ParsePath" =>
      LET p == fs[t].path
          b == fs[t].base
          l == fs[t].name
      IN /\ \E tr \in { SubSeq(p, i, j) : i \in 1..(Len(p) + 1), j \in 0..Len(p) } :
              /\ IsTrimOf(tr, p)
              /\ IF ~HasSlash(tr)
                   THEN b = <<Slash>> /\ l = tr
                   ELSE /\ ~HasSlash(l)
                        /\ Len(l) < Len(tr)
                        /\ tr = SubSeq(tr, 1, Len(tr) - Len(l) - 1) \o <<Slash>> \o l
                        /\ b = <<Slash>> \o SubSeq(tr, 1, Len(tr) - Len(l) - 1)
         /\ ParsePath(Append(p, Slash)) = [basePath |-> b, lastSegment |-> l]

\* C16 witness: "/a/b/" was parsed into "/a" and "b"
C16_Witness ==
  /\ fs["t1"].op = "ParsePath"
  /\ fs["t1"].path = <<Slash, "a", Slash, "b", Slash>>
  /\ fs["t1"].base = <<Slash, "a">>
  /\ fs["t1"].name = <<"b">>

\* --------------------------------------------------------------------- Find

\* C17: a Find that got its parent folder resolves the leaf in that
\* snapshot: an empty leaf gives the folder itself; otherwise a file of the
\* folder with that name, also when a subfolder bears the name too; without
\* such a file a subfolder with that name; without either ErrNoFile.
C17_FindResolution ==
  \A t \in Threads :
    (fs[t].op = "Find" /\ fs[t].pc = "done" /\ ~fs[t].snapshot.nil) =>
      LET parent == fs[t].snapshot.v
          leaf == fs[t].name
          files == { x \in Elems(parent.Files) : x.Name = leaf }
          subs == { x \in Elems(parent.Subfolders) : x.Name = leaf }
      IN IF leaf = <<>>
           THEN fs[t].folder = Ptr(parent) /\ fs[t].file.nil /\ fs[t].err = "nil"
         ELSE IF files # {}
           THEN /\ ~fs[t].file.nil /\ fs[t].file.v \in files
                /\ fs[t].folder.nil /\ fs[t].err = "nil"
         ELSE IF subs # {}
           THEN /\ ~fs[t].folder.nil /\ fs[t].folder.v \in subs
                /\ fs[t].file.nil /\ fs[t].err = "nil"
         ELSE fs[t].folder.nil /\ fs[t].file.nil /\ fs[t].err = "ErrNoFile"

\* C17 witness: in a folder that holds a file a and a subfolder a, Find
\* returned the file
C17_Witness ==
  \E t \in Threads :
    /\ fs[t].op = "Find" /\ fs[t].pc = "done" /\ ~fs[t].snapshot.nil
    /\ \E x \in Elems(fs[t].snapshot.v.Files) : x.Name = fs[t].name
    /\ \E x \in Elems(fs[t].snapshot.v.Subfolders) : x.Name = fs[t].name
    /\ ~fs[t].file.nil /\ fs[t].folder.nil

\* C18: Find returns one of folder and file, and not the other, when its
\* error is nil, and neither when it returns an error.
C18_FolderXorFile ==
  \A t \in Threads :
    (fs[t].op = "Find" /\ fs[t].pc = "done") =>
      IF fs[t].err = "nil"
        THEN fs[t].folder.nil # fs[t].file.nil
        ELSE fs[t].folder.nil /\ fs[t].file.nil

\* C18 witness: one Find returned a file and no folder
C18_Witness ==
  \E t \in Threads :
    /\ fs[t].op = "Find" /\ fs[t].pc = "done" /\ fs[t].err = "nil"
    /\ ~fs[t].file.nil /\ fs[t].folder.nil
    /\ fs[t].base # <<Slash>>

\* the folders of the subtree of f, f included
RECURSIVE Subtree(_)
Subtree(f) == {f} \cup UNION { Subtree(c) : c \in Elems(f.Subfolders) }

\* C19: the result of GetFolders is Flatten of the root it decoded: it
\* starts with that root, holds every folder of the tree once, and every
\* folder comes before the folders below it; it is never empty.
C19_FlattenPreOrder ==
  \A t \in Threads :
    ~fs[t].folders.nil =>
      LET flat == fs[t].folders.v IN
        /\ Len(flat) >= 1
        /\ Elems(flat) = Subtree(flat[1])
        /\ \A i, j \in 1..Len(flat) : i # j => flat[i] # flat[j]
        /\ \A i, j \in 1..Len(flat) :
             (flat[j] \in Subtree(flat[i]) /\ flat[j] # flat[i]) => i < j
        /\ fs[t].snapshot = Ptr(flat[1])

\* C19 witness: GetFolders flattened a tree of three levels
C19_Witness ==
  \E t \in Threads :
    /\ ~fs[t].folders.nil
    /\ fs[t].folders.v[1] = remote
    /\ Len(fs[t].folders.v) >= 4
    /\ \E i \in 1..Len(fs[t].folders.v) :
         Len(Split(Trim(fs[t].folders.v[i].Path, Slash), Slash)) = 2

\* -------------------------------------------------------------------- Mkdir
\* the create-folder requests among the requests of a call
CreateRequests(sent) == SelectSeq(sent, LAMBDA r : r.kind = "create")

\* no folder of the tree holds two folders of one name
RECURSIVE NoDuplicates(_)
NoDuplicates(f) ==
  /\ \A i, j \in 1..Len(f.Subfolders) :
       i # j => f.Subfolders[i].Name # f.Subfolders[j].Name
  /\ \A i \in 1..Len(f.Subfolders) : NoDuplicates(f.Subfolders[i])

\* C20: a Mkdir whose parent Find returned as a folder: when the backend
\* held the folder already, Mkdir returns nil and sends no create-folder
\* request; otherwise it sends one create-folder request, for the parent's
\* path and the name (none when GetToken failed for it). Mkdir calls made one
\* after the other never leave two folders of one name in a folder.
C20_MkdirIdempotent ==
  /\ \A t \in Threads :
       (fs[t].op = "Mkdir" /\ fs[t].pc = "done" /\ ~fs[t].folder.nil) =>
         LET creates == CreateRequests(fs[t].sent) IN
           IF fs[t].existed
             THEN fs[t].err = "nil" /\ creates = <<>>
             ELSE /\ Len(creates) <= 1
                  /\ creates = <<>> => fs[t].err = "failed to retrieve token"
                  /\ creates # <<>> =>
                       /\ creates[1].folder = fs[t].sub
                       /\ creates[1].parent = fs[t].folder.v.Path
  /\ NoDuplicates(remote)

\* ----------------------------------------------------------------- MkdirAll
\* the parent and the name of each create-folder request of a call
CreatesOf(sent) ==
  LET creates == CreateRequests(sent)
  IN [i \in 1..Len(creates) |-> [parent |-> creates[i].parent, folder |-> creates[i].folder]]

\* every request of the call was answered by the backend from what it holds
AllAnswered(sent) == \A i \in 1..Len(sent) : sent[i].ends = "ok"

\* C21: a MkdirAll of a path that starts with a slash, all of whose
\* requests went out and were answered by the backend from what it holds,
\* sends create-folder
\* requests for the folders that were missing, from the top down, and for
\* nothing else, and returns nil.
C21_MkdirAllCreatesMissing ==
  \A t \in Threads :
    (/\ fs[t].op = "MkdirAll"
     /\ fs[t].path # <<>> /\ Head(fs[t].path) = Slash
     /\ AllAnswered(fs[t].sent)
     /\ fs[t].err # "failed to retrieve token") =>
      /\ IsPrefix(CreatesOf(fs[t].sent), fs[t].expected)
      /\ fs[t].pc = "done" =>
           /\ fs[t].err = "nil"
           /\ CreatesOf(fs[t].sent) = fs[t].expected

\* ------------------------------------------------------------------- Rename
\* the requests of a call that change what the backend holds
Changes(sent) == SelectSeq(sent, LAMBDA r : r.kind \notin {"folders", "folder"})

\* Find returned a folder or a file to the call
Resolved(f) == ~f.folder.nil \/ ~f.file.nil

\* C22: a Rename whose old path Find resolved and whose request went out
\* sends one request. With the new path in the same parent folder the
\* request carries the new leaf name and no new parent; with the new path
\* in another parent folder it carries that parent folder and the new leaf
\* name. When the backend carried the request out, it holds the entry at
\* the new path.
C22_RenameOrMove ==
  \A t \in Threads :
    (/\ fs[t].op = "Rename" /\ fs[t].pc = "done"
     /\ Resolved(fs[t])
     /\ fs[t].err # "failed to retrieve token") =>
      LET changes == Changes(fs[t].sent)
          r == changes[1]
          oldBase == ParsePath(fs[t].path).basePath
          base == ParsePath(fs[t].newName).basePath
          name == ParsePath(fs[t].newName).lastSegment
          to == Lookup(base)
          now_ == Lookup(fs[t].newName)
      IN /\ Len(changes) = 1
         /\ IF base = oldBase
              THEN \/ r.kind = "edit-file" /\ r.newFilename = name
                   \/ /\ r.kind = "patch-folder"
                      /\ r.newFolderName = name /\ r.newParentFolder = <<>>
              ELSE /\ r.kind = "patch-folder"
                   /\ r.newFolderName = name /\ r.newParentFolder = base
         /\ fs[t].err = "nil" =>
              IF ~fs[t].file.nil
                THEN /\ ~to.nil
                     /\ \E x \in Elems(to.v.Files) :
                          x.ID = fs[t].file.v.ID /\ x.Name = name
                ELSE ~now_.nil /\ now_.v.Name = name

\* ------------------------------------------------------------------- Remove
\* the delete requests of a call
Deletes(sent) ==
  SelectSeq(sent, LAMBDA r : r.kind \in {"delete-folder", "delete-files"})

\* C23: a Remove sends no request that changes the backend other than a
\* delete request. Once Find resolved the path and the request went out,
\* it sent exactly one: delete-folder whose parent and folder name lead to
\* the path of the folder Find returned, or delete-files naming the id of the file Find returned. A
\* Remove whose Find failed sent none.
C23_RemoveOneDelete ==
  \A t \in Threads :
    fs[t].op = "Remove" =>
      LET dels == Deletes(fs[t].sent)
          r == dels[1]
      IN /\ Changes(fs[t].sent) = dels
         /\ (fs[t].pc = "done" /\ ~Resolved(fs[t])) => dels = <<>>
         /\ fs[t].pc = "find_resp" => dels = <<>>
         /\ (/\ fs[t].pc \in {"change_resp", "done"}
             /\ Resolved(fs[t])
             /\ fs[t].err # "failed to retrieve token") =>
               /\ Len(dels) = 1
               /\ IF ~fs[t].folder.nil
                    THEN /\ r.kind = "delete-folder"
                         /\ Segments(ChildPath(r.parent, r.folder))
                              = Segments(fs[t].folder.v.Path)
                    ELSE /\ r.kind = "delete-files"
                         /\ r.ids = <<fs[t].file.v.ID>>

\* a Remove of a folder in a folder below the root returned nil
C23_Witness ==
  \E t \in Threads :
    /\ fs[t].op = "Remove" /\ fs[t].pc = "done" /\ fs[t].err = "nil"
    /\ ~fs[t].folder.nil
    /\ Len(Segments(fs[t].folder.v.Path)) = 2
    /\ Len(Deletes(fs[t].sent)) = 1

\* --------------------------------------------------------------------- Stat
\* C24: a Stat whose requests the backend answered returns the metadata of
\* a directory (IsDir, the directory bit of Mode) when the backend held a
\* folder at the path, the metadata of a regular file when it held a file,
\* and fs.ErrNotExist when it held nothing there, the leaf or a folder on
\* the way to it missing.
C24_StatMetadata ==
  \A t \in Threads :
    (/\ fs[t].op = "Stat" /\ fs[t].pc = "done"
     /\ fs[t].sent # <<>>
     /\ \A i \in 1..Len(fs[t].sent) : fs[t].sent[i].ends = "ok") =>
      LET was == fs[t].was.v
      IN CASE was.kind = "folder" ->
                /\ fs[t].err = "nil" /\ ~fs[t].info.nil
                /\ fs[t].info.v.IsDir /\ fs[t].info.v.ModeDir
                /\ fs[t].info.v.folder.v.Path = was.folder.Path
           [] was.kind = "file" ->
                /\ fs[t].err = "nil" /\ ~fs[t].info.nil
                /\ ~fs[t].info.v.IsDir /\ ~fs[t].info.v.ModeDir
                /\ fs[t].info.v.file.v.ID = was.file.ID
           [] OTHER ->
                fs[t].err = "ErrNotExist" /\ fs[t].info.nil

\* ------------------------------------------------- Remove and Rename: absent
\* C25: a Remove or a Rename whose Find answered that the path names no
\* file (ErrNoFile) or no folder (ErrNoFolder) returns fs.ErrNotExist and
\* sends no request that changes the backend.
C25_AbsentIsNotExist ==
  \A t \in Threads :
    (/\ fs[t].op \in {"Remove", "Rename"} /\ fs[t].pc = "done"
     /\ AllAnswered(fs[t].sent) /\ fs[t].sent # <<>>
     /\ ~Resolved(fs[t])) =>
      /\ fs[t].err = "ErrNotExist"
      /\ Changes(fs[t].sent) = <<>>

\* ---------------------------------------------------------------- CraneFile
\* the chunk requests of uploads a handle sent
Uploads(sent) == SelectSeq(sent, LAMBDA r : r.kind = "upload-chunk")

\* the scratch file of the handle g exists and holds data
Buffered(g, data) ==
  /\ ~g.temporaryFile.nil
  /\ tempFs[g.temporaryFile.v.name].exists
  /\ tempFs[g.temporaryFile.v.name].data = data

\* the step is a call of o on the handle h
Calls(h, o) ==
  /\ handle[h].pc \in {"idle", "done"}
  /\ handle'[h].op = o
  /\ handle'[h] # handle[h]

\* C26: a Close of a handle whose scratch file exists and holds no bytes
\* returns ErrEmptyFile at once, sends no request and leaves what the
\* backend holds as it is.
C26_EmptyFileRejected ==
  [][\A h \in DOMAIN handle :
       (Calls(h, "Close") /\ Buffered(handle[h], <<>>)) =>
         /\ handle'[h].pc = "done"
         /\ handle'[h].err = "ErrEmptyFile"
         /\ handle'[h].sent = handle[h].sent
         /\ blobs' = blobs /\ remote' = remote]_vars

\* a Close returned ErrEmptyFile for a scratch file the handle had created
C26_Witness ==
  \E h \in DOMAIN handle :
    /\ handle[h].op = "Close" /\ handle[h].pc = "done"
    /\ handle[h].err = "ErrEmptyFile"
    /\ handle[h].created = 1
    /\ Uploads(handle[h].sent) = <<>>

\* the scratch files other than the one named name are as they were
OthersKept(name) ==
  \A k \in 1..Len(tempFs) : k # name => tempFs'[k] = tempFs[k]

\* C27: a Write or a WriteAt returns in one step without a request: what
\* the handle sent, what the backend holds and every other scratch file
\* stay as they were.  The first write of a handle creates its scratch
\* file, later writes create none, and a write takes no bytes out of the
\* file.  The backend gets new contents only in a step of Close, and they
\* are the bytes the scratch file of that handle held.
C27_WritesStayLocal ==
  [][/\ \A h \in DOMAIN handle :
          (Calls(h, "Write") \/ Calls(h, "WriteAt")) =>
            LET g == handle[h]
                name == handle'[h].temporaryFile.v.name
            IN /\ handle'[h].pc = "done"
               /\ handle'[h].sent = g.sent
               /\ blobs' = blobs /\ remote' = remote /\ readCache' = readCache
               /\ ~handle'[h].temporaryFile.nil
               /\ handle'[h].created = 1
               /\ IF g.temporaryFile.nil
                    THEN /\ tempFs' = Append(tempFs, tempFs'[name])
                         /\ name = Len(tempFs) + 1
                    ELSE /\ name = g.temporaryFile.v.name
                         /\ Len(tempFs') = Len(tempFs)
                         /\ Len(tempFs'[name].data) >= Len(tempFs[name].data)
               /\ OthersKept(name)
               /\ handle'[h].err = "nil" =>
                    /\ handle'[h].n = Len(handle'[h].p)
                    /\ SubSeq(tempFs'[name].data, handle'[h].temporaryFile.v.at
                                - Len(handle'[h].p) + 1,
                              handle'[h].temporaryFile.v.at) = handle'[h].p
     /\ blobs' # blobs =>
          \E h \in DOMAIN handle :
            /\ handle'[h].op = "Close"
            /\ ~handle[h].temporaryFile.nil
            /\ blobs' = Append(blobs,
                 [Name |-> handle[h].name,
                  data |-> tempFs[handle[h].temporaryFile.v.name].data])]_vars

\* C28: when a Close whose scratch file holds bytes ends with an error,
\* ChunkedUpload having failed, the scratch file still exists and holds
\* those bytes.
C28_FailedUploadKeepsBuffer ==
  [][\A h \in DOMAIN handle :
       LET name == handle[h].temporaryFile.v.name
       IN (/\ handle'[h].op = "Close" /\ handle'[h].pc = "done"
           /\ handle[h].pc \in {"idle", "done", "upload_resp"}
           /\ handle'[h] # handle[h]
           /\ ~handle[h].temporaryFile.nil
           /\ tempFs[name].exists /\ tempFs[name].data # <<>>
           /\ handle'[h].err # "nil") =>
            /\ tempFs'[name].exists
            /\ tempFs'[name].data = tempFs[name].data]_vars

\* ------------------------------------------------------ the read cache
\* the download requests that random-access opens sent for the file id: the
\* handles and the places in what they sent
CacheDownloads(id) ==
  UNION { { <<h, i>> : i \in { j \in 1..Len(handle[h].sent) :
                                 /\ handle[h].sent[j].kind = "download"
                                 /\ handle[h].sent[j].by = "ReadAt"
                                 /\ handle[h].sent[j].id = id } } :
          h \in DOMAIN handle }

\* the handles that hold a reader of the cache entry of the file id
ReadersOf(id) ==
  { h \in DOMAIN handle :
      /\ ~handle[h].readAtStream.nil
      /\ ~readCache.nil
      /\ readCache.v[handle[h].readAtStream.v.entry].key = id }

\* C29: for every file the random-access opens of all handles together
\* sent at most one download request, the cache holds at most one entry
\* for it, and a download request for it was sent only by the handle that
\* made the entry.
C29_OneDownloadPerFile ==
  \A id \in 0..Len(blobs) :
    /\ Cardinality(CacheDownloads(id)) <= 1
    /\ ~readCache.nil =>
         Cardinality({ k \in 1..Len(readCache.v) : readCache.v[k].key = id }) <= 1
    /\ CacheDownloads(id) # {} => (~readCache.nil /\ EntryOf(readCache.v, id) # 0)

\* two handles read the first file at an offset, and one download request
\* was sent for it
C29_Witness ==
  /\ ReadersOf(1) = Handles
  /\ \A h \in Handles :
       handle[h].op = "ReadAt" /\ handle[h].pc = "done" /\ handle[h].n = 1
  /\ Cardinality(CacheDownloads(1)) = 1

\* the copy of the download stream of the handle g into the cache is over:
\* io.Copy has returned and the stream has been closed behind it
CopyFinished(g) == ~g.readStream.nil /\ g.readStream.v.closed

\* C30: in the step in which the first random-access open of a file
\* returns to its caller, the copy of the download stream into the cache
\* has not finished.
C30_OpenReturnsBeforeCopy ==
  [][\A h \in DOMAIN handle :
       (/\ handle[h].pc = "copying" /\ handle[h].producer
        /\ handle'[h].pc # "copying") =>
         ~CopyFinished(handle'[h])]_vars

\* the step is a ReadAt of the handle h at an offset at or behind the
\* recorded size of its file
ReadsPastEnd(h) ==
  /\ Calls(h, "ReadAt")
  /\ ~handle[h].file.nil
  /\ handle'[h].off >= handle[h].file.v.Size

\* the call of the handle h returns in this step with n and err, and the
\* handle has sent no request in it
ReturnsLocally(h, n, err) ==
  /\ handle'[h].pc = "done"
  /\ handle'[h].n = n
  /\ handle'[h].err = err
  /\ handle'[h].sent = handle[h].sent

\* C31: a ReadAt at an offset at or behind the recorded size of the file
\* of the handle returns in one step with no bytes and EOF, and the handle
\* has sent no request in it, whatever the handle and the cache hold.
C31_ReadPastEndIsLocal ==
  [][\A h \in DOMAIN handle :
       ReadsPastEnd(h) => ReturnsLocally(h, 0, "EOF")]_vars

\* ------------------------------------------------------------- the mutex
\* the step is the one in which the caller t reads the credential inside
\* GetToken (auth.go:172, 191)
ReadsCredential(t) == pc[t] = "gt_read" /\ pc'[t] = "gt_check"

\* C32: a step that replaces the credential is taken by the caller that
\* holds the mutex, the refresh token RefreshToken posts was read by the
\* caller that holds it, and a step in which a caller reads the credential
\* inside GetToken is taken while that caller holds the mutex, so never
\* while another caller holds it.
C32_CredentialUnderLock ==
  [][\A t \in Threads :
       /\ ((lastResponse' # lastResponse \/ store' # store)
             /\ pc[t] \in {"au_recv", "rt_recv"} /\ pc'[t] # pc[t]) => mu = t
       /\ (pc[t] = "rt_lock" /\ pc'[t] = "rt_recv") => mu' = t
       /\ ReadsCredential(t) => mu = t]_vars

\* ------------------------------------------------ the fields of an upload
\* the chunk requests of the upload the caller t runs or ran last
ChunkRequests(t) == IF op[t] = "ChunkedUpload" THEN up[t].sent ELSE <<>>

\* C33: all chunk requests of one ChunkedUpload call carry the same session
\* identifier, file name, folder and chunk size, which are the ones the
\* call built, and the same total size and number of chunks; the i-th
\* request carries the chunk number i; the requests of another caller carry
\* another session identifier; and a step of one caller leaves the upload
\* of the other caller as it was.
C33_OneSessionPerUpload ==
  [][/\ \A t \in Threads :
          LET sent == ChunkRequests(t)' IN
            \A i \in 1..Len(sent) :
              /\ sent[i].fields = sent[1].fields
              /\ sent[i].fields = up'[t].fields
              /\ sent[i].fields.resumableIdentifier # <<>>
              /\ sent[i].fields.resumableChunkSize = maxChunkSize
              /\ sent[i].totalSize = up'[t].fileSize
              /\ sent[i].totalChunks = up'[t].totalChunks
              /\ sent[i].chunk = i
              /\ \A s \in Threads \ {t} : \A j \in 1..Len(ChunkRequests(s)') :
                   ChunkRequests(s)'[j].fields.resumableIdentifier
                     # sent[i].fields.resumableIdentifier
     /\ \A t \in Threads :
          (pc'[t] # pc[t] \/ up'[t] # up[t]) =>
            \A s \in Threads \ {t} : up'[s] = up[s]]_vars

\* both callers have sent the second chunk request of their uploads and
\* wait for its answer; the two uploads are of the same file name in
\* different folders
C33_Witness ==
  /\ \A t \in Threads :
       /\ op[t] = "ChunkedUpload" /\ pc[t] = "up_recv"
       /\ Len(up[t].sent) = 2
       /\ up[t].sent[2].chunk = 2
       /\ up[t].sent[2].fields.resumableFilename = <<"b">>
  /\ up["t1"].fields.contextData # up["t2"].fields.contextData
  /\ up["t1"].fields.resumableIdentifier # up["t2"].fields.resumableIdentifier

\* ------------------------------------------------------------------ Close
\* the stream behind the pointer st is not open: there is none, or it has
\* been closed
NotOpen(st) == st.nil \/ st.v.closed

\* C34: when Close has returned on a handle, the download stream and the
\* cache reader the handle holds have been closed.
C34_CloseClosesEveryStream ==
  \A h \in DOMAIN handle :
    (handle[h].op = "Close" /\ handle[h].pc = "done") =>
      /\ NotOpen(handle[h].readStream)
      /\ NotOpen(handle[h].readAtStream)

\* ------------------------------------------------- payloads and their sizes
\* C35: every chunk request of a ChunkedUpload call carries as many bytes as
\* it declares, and a call whose input held fewer bytes than fileSize does
\* not return a File.
C35_PayloadIsDeclaredSize ==
  \A t \in Threads :
    op[t] = "ChunkedUpload" =>
      /\ \A i \in 1..Len(up[t].sent) :
           up[t].sent[i].payload = up[t].sent[i].declared
      /\ (pc[t] = "done" /\ up[t].inPos + up[t].inLeft < up[t].fileSize) =>
           ret[t].err # "nil"

\* ------------------------------------------------- Mkdir below a file
\* the create-folder requests among the requests sent
Creations(sent) == SelectSeq(sent, LAMBDA r : r.kind = "create")

\* the Find of the call f has returned a file and no folder
ResolvedToFile(f) ==
  /\ f.pc \notin {"idle", "find_resp"}
  /\ f.folder.nil
  /\ ~f.file.nil

\* C36: a Mkdir whose parent path resolves to a file returns an error and
\* has sent no create-folder request, and no Mkdir calls Subfolder on a
\* folder that Find did not return.
C36_MkdirBelowFileFails ==
  \A t \in Threads :
    fs[t].op = "Mkdir" =>
      /\ fs[t].pc # "panic"
      /\ ResolvedToFile(fs[t]) =>
           /\ fs[t].pc = "done"
           /\ fs[t].err \notin {"nil", "none"}
           /\ Creations(fs[t].sent) = <<>>

\* ------------------------------------------------- Mkdir by two callers
\* the calls f and g are Mkdir calls for the same folder, which the backend
\* did not hold when either call was made
SameNewFolder(f, g) ==
  /\ f.op = "Mkdir" /\ g.op = "Mkdir"
  /\ ParsePath(f.path) = ParsePath(g.path)
  /\ ~f.existed /\ ~g.existed

\* the call f got a token for every request, and the backend served every
\* request as it is
Served(f) ==
  /\ f.err # "failed to retrieve token"
  /\ \A i \in 1..Len(f.sent) : f.sent[i].ends = "ok"

\* C37: of two Mkdir calls for the same folder, made while the backend did
\* not hold it, whose requests the backend all served, at most one has sent
\* a create-folder request, and when both have returned, both returned nil.
C37_ConcurrentMkdirCreatesOnce ==
  \A t \in Threads : \A u \in Threads \ {t} :
    (SameNewFolder(fs[t], fs[u]) /\ Served(fs[t]) /\ Served(fs[u])) =>
      /\ Len(Creations(fs[t].sent)) + Len(Creations(fs[u].sent)) <= 1
      /\ (fs[t].pc = "done" /\ fs[u].pc = "done") =>
           (fs[t].err = "nil" /\ fs[u].err = "nil")
====
